---- MODULE Spec2Model ----
(***************************************************************************)
(* Verification model of the RCA engine of thichcode/claw_project:         *)
(*   src/rca-full-async/rca_multi_agent.py      (multi-agent pipeline)     *)
(*   src/rca-full-async/rca_full_async_stdlib.py (TTL cache, correlate)    *)
(*   src/rca-full-async/rca_other.py             (cached LLM / Zabbix)     *)
(*                                                                         *)
(* Epoch values are Python ints of unbounded width.  They are kept here as *)
(* records [ok, q, r] standing for q*1000 + r with 0 <= r < 1000, so that  *)
(* the millisecond threshold 10^10 and the floor division by 1000 are      *)
(* exact while every component stays in TLC's integer range.               *)
(***************************************************************************)
EXTENDS Bags, Integers, Sequences, FiniteSets, TLC

VARIABLES
    \* ---- correlate (SpecCorr) ----
    zbx,          \* incident events handed to correlate
    upr,          \* uptime monitors (each with its logs) handed to correlate
    now,          \* datetime.now(timezone.utc) read inside correlate
    groups,       \* result of rca_multi_agent.correlate
    groups_std,   \* result of rca_full_async_stdlib.correlate
    cpc,          \* "input" before the call, "done" after it
    \* ---- rca_multi_agent.main (SpecMain) ----
    mpc,          \* position of main()
    run,          \* 1: first invocation of main, 2: second invocation
    clock,        \* the wall clock, [sec, frac]
    cfg,          \* which credentials are configured: [zabbix, uptime, llm]
    src,          \* what the sources and the service answer, and the
                  \* input payload of main(): [zbx, upr, llm, payload]
    z_task,       \* state of the task running fetch_zabbix_problems
    u_task,       \* state of the task running fetch_uptimerobot_monitors
    done_order,   \* the order in which the two fetch tasks resolved
    enrichments,  \* results of the enrichment fan-out
    stage_out,    \* output of each reasoning stage, NoDoc until it returned
    dispatched,   \* the agents main() called in this run, in call order
    requests,     \* the requests sent to the reasoning service in this run
    decision,     \* the Decision produced by apply_guardrail, NoDoc before
    prev,         \* what the first invocation read and produced
    \* ---- TTL caches (SpecCache) ----
    cimpl,        \* the cache exercised: "TTLCache" or "rca_other"
    cache,        \* the rows of the cache table, by key
    ctime,        \* int(time.time())
    written,      \* history: the most recent set of each key
    got,          \* the most recent get and what it returned
    cdel,         \* per key, the calls of TTLCache.get between their SELECT
                  \* and their DELETE
    cbegun,       \* the calls of TTLCache between their reading of the
                  \* clock and their statement
    \* ---- summarize_series (SpecSeries) ----
    points,       \* the samples handed to summarize_series
    summary,      \* what it returned
    \* ---- metric enrichment (SpecEnrich) ----
    epc,          \* position of the enrichment call
    ein,          \* its inputs: [creds, window]
    ehostid,      \* the resolved host id
    eclock,       \* the event clock lookup: [st, ts]
    eitems,       \* the item candidates returned by item.get
    hist_fetches, \* number of history.get requests issued
    e_fetch,      \* rca_other: position of each fetch_item_history task
    e_sent,       \* rca_other: the methods of the requests zbx_api sent
    eres,         \* the returned EnrichmentResult
    \* ---- calibration, guardrail and delivery (SpecGuard) ----
    gpc,             \* position in the tail of main()
    g_decision_raw,  \* decision_raw: the dict the decision stage returned
    g_supplied,      \* history: decision_raw as the decision stage returned it
    g_groups,        \* the correlation groups of the run
    g_enrichments,   \* the enrichment results of the run
    conf_meta,       \* what calibrate_confidence returned
    g_decision,      \* the Decision: apply_guardrail's result, then updated
    reapplied,       \* apply_guardrail applied to its own result
    sdp_done,        \* whether the ticket flow ran: "unset", "yes", "no"
    report,          \* what render_report produced
    \* ---- knowledge-base matcher (SpecKb) ----
    kpc,             \* "input" before pick_best_kb_match, "done" after it
    kb_solution,     \* the solution text, a sequence of words
    kb_entries,      \* the knowledge-base entries, in input order
    kb_min_score,    \* min_score, in units of 1/10000
    kb_scores,       \* the score the loop computed for each entry
    kb_match,        \* what pick_best_kb_match returned
    \* ---- timestamp normalisation (SpecTs) ----
    tpc,             \* "input" before normalisation, "done" after it
    ts_in,           \* the raw event and the raw uptime log
    ts_out,          \* their normalised timestamps and correlate's groups
    \* ---- enrichment fan-out (SpecFan) ----
    f_impl,          \* "multi_agent" or "rca_other"
    f_limit,         \* the configured incident-source concurrency limit
    f_items,         \* what item.get answers for each enrichment target
    f_run,           \* the run: "running", "returned", "done" or "crashed"
    t_pc,            \* position of each enrichment target
    i_pc,            \* position of each per-metric fetch of each target
    f_arrival,       \* per target, the fetches in the order they completed
    i_res,           \* per target, what each per-metric task returned
    f_res,           \* per target, the EnrichmentResult, NoDoc before
    outer_free,      \* free permits of main()'s semaphore
    inner_free,      \* free permits of each enrichment's own semaphore
    global_free,     \* free permits of rca_other.SEM_ZBX
    ev_pc,           \* rca_other: position of each evidence request
    \* ---- concurrent cached calls (SpecRace) ----
    r_impl,          \* "TTLCache" (rca_full_async_stdlib) or "rca_other"
    r_kind,          \* the external call that is cached: "zbx" or "llm"
    r_ttl,           \* the TTL of the calls
    r_now,           \* int(time.time())
    r_rows,          \* the cache table, by key
    c_pc,            \* position of each cached call
    c_ans,           \* how the external call of each cached call ended
    c_val,           \* the value each cached call got, NoDoc before
    c_wrote,         \* whether each cached call wrote the cache
    c_now,           \* the clock the running TTLCache call of each caller read
    gc_now,          \* the clock the running cleanup read, -1 when none runs
    r_last_set,      \* history: the most recent write of the contended key
    r_removed,       \* history: the most recent removal, with its time
    \* ---- approvals of the deploy bot (SpecApprove) ----
    a_row,           \* the row of the approvals table, NoRow if absent
    a_perm,          \* per approver: [approve, prod] allowlist membership
    a_pc,            \* position of each handle_approve call
    a_resp,          \* the message each handle_approve call answered
    a_deploys,       \* the invocations of deploy_service, in order
    a_audit          \* the audit log: the actions written, in order

corrVars == <<zbx, upr, now, groups, groups_std, cpc>>

mainVars == <<mpc, run, clock, cfg, src, z_task, u_task, done_order,
              enrichments, stage_out, dispatched, requests, decision, prev>>

cacheVars == <<cimpl, cache, ctime, written, got, cdel, cbegun>>

seriesVars == <<points, summary>>

enrichVars == <<epc, ein, ehostid, eclock, eitems, hist_fetches, e_fetch,
                e_sent, eres>>

guardVars == <<gpc, g_decision_raw, g_supplied, g_groups, g_enrichments,
               conf_meta, g_decision, reapplied, sdp_done, report>>

kbVars == <<kpc, kb_solution, kb_entries, kb_min_score, kb_scores, kb_match>>

tsVars == <<tpc, ts_in, ts_out>>

fanVars == <<f_impl, f_limit, f_items, f_run, t_pc, i_pc, f_arrival, i_res, f_res,
             outer_free, inner_free, global_free, ev_pc>>

raceVars == <<r_impl, r_kind, r_ttl, r_now, r_rows, c_pc, c_ans, c_val,
              c_wrote, c_now, gc_now, r_last_set, r_removed>>

apprVars == <<a_row, a_perm, a_pc, a_resp, a_deploys, a_audit>>

concVars == <<fanVars, raceVars, apprVars>>

laterVars == <<guardVars, kbVars, tsVars, concVars>>

otherVars == <<cacheVars, seriesVars, enrichVars, laterVars>>

vars == <<corrVars, mainVars, otherVars>>

(***************************************************************************)
(* Integers and timestamps                                                 *)
(***************************************************************************)
Abs(x) == IF x < 0 THEN -x ELSE x

\* The Python value None as a parse result.
NoTs == [ok |-> FALSE, q |-> 0, r |-> 0]

\* A call of parse_ts that ends in ValueError instead of returning.
TsRaised == [ok |-> FALSE, q |-> 0, r |-> 0, err |-> "ValueError"]

IsRaised(ts) == "err" \in DOMAIN ts

\* The outcome of a call: the value it returned, or the exception it raised.
Ret(v) == [exc |-> "none", val |-> v]

Exc(e) == [exc |-> e, val |-> <<>>]

\* The epoch second n (n within TLC's range) as a timestamp.
Sec(n) == [ok |-> TRUE, q |-> n \div 1000, r |-> n % 1000]

\* a - b for two timestamps, saturated at +-2*10^9 (far beyond any window).
TsSub(a, b) ==
    LET dq == a.q - b.q
    IN  IF dq > 2000000 THEN 2000000000
        ELSE IF dq < -2000000 THEN -2000000000
        ELSE dq * 1000 + (a.r - b.r)

\* Python truthiness of a parse result: "not ts" holds for None and for 0.
NotTs(ts) == ~ts.ok \/ (ts.q = 0 /\ ts.r = 0)

\* datetime.fromtimestamp(ts, tz=timezone.utc) knows the years 1..9999 only:
\* the instants -62135596800 .. 253402300799.
MinDatetimeQ == -62135597
MinDatetimeR == 200
MaxDatetimeQ == 253402300
MaxDatetimeR == 799

\* The datetime of the instant zts (kept as the instant itself), or ValueError.
fromtimestamp(zts) ==
    IF \/ zts.q < MinDatetimeQ \/ (zts.q = MinDatetimeQ /\ zts.r < MinDatetimeR)
       \/ zts.q > MaxDatetimeQ \/ (zts.q = MaxDatetimeQ /\ zts.r > MaxDatetimeR)
    THEN TsRaised
    ELSE zts

(***************************************************************************)
(* Configuration (environment defaults of the source)                      *)
(***************************************************************************)
LOOKBACK_MINUTES == 30
TIME_WINDOW_MINUTES == 10
TIME_WINDOW_SEC == TIME_WINDOW_MINUTES * 60

(***************************************************************************)
(* Raw field values of an event as they arrive from JSON.                  *)
(*   k = "none"   : the field is missing or null                           *)
(*   k = "int"    : a JSON integer q*1000+r                                *)
(*   k = "digits" : a digit-only string spelling q*1000+r (q >= 0)         *)
(*   k = "iso"    : an ISO-8601 string whose instant is q*1000+r           *)
(*   k = "empty"  : the empty string                                       *)
(*   k = "str"    : a non-empty string that is neither digits nor ISO      *)
(*   k = "supdigit": a string of digit characters that spell no integer,   *)
(*                  such as a superscript two: str.isdigit() holds for it  *)
(*                  and int() rejects it                                   *)
(***************************************************************************)
RawNone == [k |-> "none", q |-> 0, r |-> 0]
RawEmpty == [k |-> "empty", q |-> 0, r |-> 0]
RawStr == [k |-> "str", q |-> 0, r |-> 0]
RawSupDigit == [k |-> "supdigit", q |-> 0, r |-> 0]
RawInt(n) == [k |-> "int", q |-> n \div 1000, r |-> n % 1000]
IntVal(q, r) == [k |-> "int", q |-> q, r |-> r]
RawDigits(n) == [k |-> "digits", q |-> n \div 1000, r |-> n % 1000]
RawIso(n) == [k |-> "iso", q |-> n \div 1000, r |-> n % 1000]

\* Python truthiness of a raw value (operand of "or").
Truthy(v) ==
    CASE v.k = "none" -> FALSE
      [] v.k = "empty" -> FALSE
      [] v.k = "int" -> ~(v.q = 0 /\ v.r = 0)
      [] OTHER -> TRUE

\* a or b
PyOr(a, b) == IF Truthy(a) THEN a ELSE b

\* Mutant: exactly 10_000_000_000 is taken as milliseconds too.
MsRule_from(q, r) ==
    IF q >= 10000000
    THEN [ok |-> TRUE, q |-> q \div 1000, r |-> q % 1000]
    ELSE [ok |-> TRUE, q |-> q, r |-> r]

\* t // 1000 if t > 10_000_000_000 else t, for t = q*1000 + r
MsRule(q, r) ==
    IF q > 10000000 \/ (q = 10000000 /\ r > 0)
    THEN [ok |-> TRUE, q |-> q \div 1000, r |-> q % 1000]
    ELSE [ok |-> TRUE, q |-> q, r |-> r]

parse_ts(v) ==
    CASE v.k = "none" -> NoTs
      [] v.k = "int" -> MsRule(v.q, v.r)
      [] v.k = "empty" -> NoTs
      [] v.k = "digits" -> MsRule(v.q, v.r)
      [] v.k = "iso" -> [ok |-> TRUE, q |-> v.q, r |-> v.r]
      [] v.k = "supdigit" -> TsRaised
      [] OTHER -> NoTs

\* ts_a or ts_b on parse results: b is evaluated only when a returned a
\* falsy value, and an exception of either call leaves the expression.
TsOr(a, b) == IF IsRaised(a) THEN a ELSE IF NotTs(a) THEN b ELSE a

\* Mutant: the window is open at its edges.
within_window_open(a, b) == Abs(TsSub(a, b)) < TIME_WINDOW_SEC

within_window(a, b) == Abs(TsSub(a, b)) <= TIME_WINDOW_SEC

\* rca_full_async_stdlib.py
zabbix_event_ts(ev) ==
    TsOr(parse_ts(ev.clock), TsOr(parse_ts(ev.event_time), parse_ts(ev.timestamp)))

uptime_log_ts(lg) ==
    TsOr(parse_ts(lg.datetime), TsOr(parse_ts(lg.created_at), parse_ts(lg.time)))

\* rca_multi_agent.py: the field is chosen by "or" before it is parsed
IncidentTs(z) == parse_ts(PyOr(z.clock, PyOr(z.event_time, z.timestamp)))

UptimeTs(lg) == parse_ts(PyOr(lg.datetime, PyOr(lg.time, lg.created_at)))

\* zdt < now - timedelta(minutes=LOOKBACK_MINUTES) for the datetime zdt that
\* fromtimestamp returned; n.frac > 0 stands for a positive sub-second part of
\* the clock reading.
OlderThanLookback(zdt, n) ==
    LET d == TsSub(zdt, n.sec)
    IN  d < -(LOOKBACK_MINUTES * 60) \/ (d = -(LOOKBACK_MINUTES * 60) /\ n.frac > 0)

\* The timestamp of an event in either implementation.
EventTs(impl, z) == IF impl = "multi_agent" THEN IncidentTs(z) ELSE zabbix_event_ts(z)

LogTs(impl, lg) == IF impl = "multi_agent" THEN UptimeTs(lg) ELSE uptime_log_ts(lg)

\* The flattened uptime events of one monitor, in log order; the loop ends
\* with the exception of the first log whose timestamp cannot be parsed.
MonitorEvents(m, mi, impl) ==
    LET F[j \in 0..Len(m.logs)] ==
            IF j = 0 THEN Ret(<<>>)
            ELSE IF F[j - 1].exc # "none" THEN F[j - 1]
            ELSE LET ts == LogTs(impl, m.logs[j])
                 IN  IF IsRaised(ts) THEN Exc(ts.err)
                     ELSE IF NotTs(ts) THEN F[j - 1]
                     ELSE Ret(Append(F[j - 1].val,
                                     [ts |-> ts, mon |-> mi, log |-> j]))
    IN  F[Len(m.logs)]

\* All monitors flattened: monitor order, then log order.
FlattenWith(monitors, impl) ==
    LET G[i \in 0..Len(monitors)] ==
            IF i = 0 THEN Ret(<<>>)
            ELSE IF G[i - 1].exc # "none" THEN G[i - 1]
            ELSE LET me == MonitorEvents(monitors[i], i, impl)
                 IN  IF me.exc # "none" THEN me
                     ELSE Ret(G[i - 1].val \o me.val)
    IN  G[Len(monitors)]

up_events(monitors) == FlattenWith(monitors, "multi_agent")

normalize_uptime_events(monitors) == FlattenWith(monitors, "stdlib")

Matched(zts, events) == SelectSeq(events, LAMBDA e : within_window(zts, e.ts))

\* z.get(f) for a string field of an event; "" stands for None.
Field(z, f) == IF f \in DOMAIN z THEN z[f] ELSE ""

\* hosts = z.get("hosts") or []; host0 = hosts[0] if hosts else {};
\* host0.get("host") or host0.get("name")
HostnameOf(z) ==
    LET hosts == IF "hosts" \in DOMAIN z THEN z.hosts ELSE <<>>
    IN  IF hosts = <<>> THEN ""
        ELSE IF hosts[1].host # "" THEN hosts[1].host ELSE hosts[1].name

\* The group of the event zs[i]; rca_multi_agent keeps the host name in it.
Group(impl, i, z, zts, matched) ==
    IF impl = "multi_agent"
    THEN [zidx |-> i, zabbix_ts |-> zts, matched_uptime |-> matched,
          eventid |-> Field(z, "eventid"), hostname |-> HostnameOf(z)]
    ELSE [zidx |-> i, zabbix_ts |-> zts, matched_uptime |-> matched,
          eventid |-> Field(z, "eventid")]

\* Mutant: every new group is put in front of the list.
GroupsWith_prepend(zs, flat, n, impl) ==
    LET H[i \in 0..Len(zs)] ==
            IF i = 0 THEN Ret(<<>>)
            ELSE IF H[i - 1].exc # "none" THEN H[i - 1]
            ELSE LET zts == EventTs(impl, zs[i])
                     zdt == fromtimestamp(zts)
                 IN  IF IsRaised(zts) THEN Exc(zts.err)
                     ELSE IF NotTs(zts) THEN H[i - 1]
                     ELSE IF IsRaised(zdt) THEN Exc(zdt.err)
                     ELSE IF OlderThanLookback(zdt, n) THEN H[i - 1]
                     ELSE Ret(<<Group(impl, i, zs[i], zts, Matched(zts, flat.val))>>
                              \o H[i - 1].val)
    IN  IF flat.exc # "none" THEN flat ELSE H[Len(zs)]

\* The loop over the incident events zs, after the uptime events were
\* flattened with outcome flat: the groups, or the first exception.
GroupsWith(zs, flat, n, impl) ==
    LET H[i \in 0..Len(zs)] ==
            IF i = 0 THEN Ret(<<>>)
            ELSE IF H[i - 1].exc # "none" THEN H[i - 1]
            ELSE LET zts == EventTs(impl, zs[i])
                     zdt == fromtimestamp(zts)
                 IN  IF IsRaised(zts) THEN Exc(zts.err)
                     ELSE IF NotTs(zts) THEN H[i - 1]
                     ELSE IF IsRaised(zdt) THEN Exc(zdt.err)
                     ELSE IF OlderThanLookback(zdt, n) THEN H[i - 1]
                     ELSE Ret(Append(H[i - 1].val,
                                     Group(impl, i, zs[i], zts,
                                           Matched(zts, flat.val))))
    IN  IF flat.exc # "none" THEN flat ELSE H[Len(zs)]

\* rca_multi_agent.correlate
correlate(zs, monitors, n) == GroupsWith(zs, up_events(monitors), n, "multi_agent")

\* rca_full_async_stdlib.correlate
correlate_stdlib(zs, monitors, n) ==
    GroupsWith(zs, normalize_uptime_events(monitors), n, "stdlib")

(***************************************************************************)
(* SpecCorr: correlate applied to bounded inputs                           *)
(***************************************************************************)
MaxZbx == 2
MaxMonitors == 2
MaxLogs == 3

\* The clock reading of the run, in epoch seconds.
NowSec == 1790000 * 1000

OnlyClock(v) == [clock |-> v, event_time |-> RawNone, timestamp |-> RawNone]
OnlyDatetime(v) == [datetime |-> v, time |-> RawNone, created_at |-> RawNone]

\* Incident events: 100 s old; 1301 s old; exactly at the lookback horizon;
\* no parseable clock.
ZbxEvents ==
    { OnlyClock(RawDigits(NowSec - 100)),
      OnlyClock(RawDigits(NowSec - 1301)),
      OnlyClock(RawInt(NowSec - LOOKBACK_MINUTES * 60)),
      OnlyClock(RawStr) }

\* Incident events on which correlate does not return: a clock of digit
\* characters that spell no integer; a clock one second before the first
\* instant a datetime can hold, and one second after the last.
RaisingEvents ==
    { OnlyClock(RawSupDigit),
      OnlyClock(IntVal(MinDatetimeQ, MinDatetimeR - 1)),
      OnlyClock(IntVal(MaxDatetimeQ, MaxDatetimeR + 1)) }

\* Uptime logs: 700 s and 701 s old (each is a window edge of one incident
\* event above and one second beyond the edge of the other); no timestamp.
UptimeLogs ==
    { OnlyDatetime(RawInt(NowSec - 700)),
      OnlyDatetime(RawInt(NowSec - 701)),
      OnlyDatetime(RawNone) }

\* A log whose first field is free text and whose last field is made of
\* digit characters that spell no integer.
RaisingLog == [datetime |-> RawStr, time |-> RawNone, created_at |-> RawSupDigit]

\* Monitors next to the raising incident events: none, or up to two logs
\* of which one may raise.
RaisingMonitors ==
    { <<>>,
      <<[logs |-> <<OnlyDatetime(RawInt(NowSec - 700))>>]>>,
      <<[logs |-> <<OnlyDatetime(RawInt(NowSec - 700)), RaisingLog>>]>>,
      <<[logs |-> <<OnlyDatetime(RawSupDigit)>>],
        [logs |-> <<OnlyDatetime(RawInt(NowSec - 701))>>]>> }

SeqsUpTo(S, n) == UNION { [1..k -> S] : k \in 0..n }

\* The monitors that hold the logs ls, monitor i ending at log ends[i].
Monitors(ls, ends) ==
    [i \in 1..Len(ends) |->
        [logs |-> SubSeq(ls, (IF i = 1 THEN 0 ELSE ends[i - 1]) + 1, ends[i])]]

ValidEnds(ls, ends) ==
    /\ \A i \in 1..Len(ends) : ends[i] <= Len(ls)
    /\ \A i \in 2..Len(ends) : ends[i - 1] <= ends[i]
    /\ IF ends = <<>> THEN ls = <<>> ELSE ends[Len(ends)] = Len(ls)

\* Up to MaxMonitors monitors holding up to MaxLogs logs between them.
MonitorInputs ==
    { Monitors(p[1], p[2]) :
        p \in { q \in SeqsUpTo(UptimeLogs, MaxLogs) \X SeqsUpTo(0..MaxLogs, MaxMonitors) :
                   ValidEnds(q[1], q[2]) } }

NoDoc == [kind |-> "none"]

NoSet == [kind |-> "unset"]

NoGot == [kind |-> "noget"]

\* The variables of the tail of main() while another component is exercised.
GuardIdle ==
    /\ gpc = "idle"
    /\ g_decision_raw = NoDoc
    /\ g_supplied = NoDoc
    /\ g_groups = <<>>
    /\ g_enrichments = <<>>
    /\ conf_meta = NoDoc
    /\ g_decision = NoDoc
    /\ reapplied = NoDoc
    /\ sdp_done = "unset"
    /\ report = NoDoc

\* The variables of the knowledge-base matcher while it is not exercised.
KbIdle ==
    /\ kpc = "idle"
    /\ kb_solution = <<>>
    /\ kb_entries = <<>>
    /\ kb_min_score = 0
    /\ kb_scores = <<>>
    /\ kb_match = NoDoc

\* The variables of the timestamp normalisation while it is not exercised.
TsIdle ==
    /\ tpc = "idle"
    /\ ts_in = NoDoc
    /\ ts_out = NoDoc

\* The variables of the enrichment fan-out while it is not exercised.
FanIdle ==
    /\ f_impl = "idle"
    /\ f_limit = 0
    /\ f_items = <<>>
    /\ f_run = "idle"
    /\ t_pc = <<>>
    /\ i_pc = <<>>
    /\ f_arrival = <<>>
    /\ i_res = <<>>
    /\ f_res = <<>>
    /\ outer_free = 0
    /\ inner_free = <<>>
    /\ global_free = 0
    /\ ev_pc = <<>>

\* The variables of the concurrent cached calls while not exercised.
RaceIdle ==
    /\ r_impl = "idle"
    /\ r_kind = "idle"
    /\ r_ttl = 0
    /\ r_now = 0
    /\ r_rows = <<>>
    /\ c_pc = <<>>
    /\ c_ans = <<>>
    /\ c_val = <<>>
    /\ c_wrote = <<>>
    /\ c_now = <<>>
    /\ gc_now = -1
    /\ r_last_set = NoSet
    /\ r_removed = NoSet

\* The variables of the approvals while they are not exercised.
ApproveIdle ==
    /\ a_row = NoSet
    /\ a_perm = <<>>
    /\ a_pc = <<>>
    /\ a_resp = <<>>
    /\ a_deploys = <<>>
    /\ a_audit = <<>>

ConcIdle == FanIdle /\ RaceIdle /\ ApproveIdle

LaterIdle == GuardIdle /\ KbIdle /\ TsIdle /\ ConcIdle

\* The variables of the caches, the series summary and the enrichment while
\* another component is exercised.
OtherIdle ==
    /\ LaterIdle
    /\ cimpl = "idle"
    /\ cache = <<>>
    /\ ctime = 0
    /\ written = <<>>
    /\ got = NoGot
    /\ cdel = <<>>
    /\ cbegun = EmptyBag
    /\ points = <<>>
    /\ summary = NoDoc
    /\ epc = "idle"
    /\ ein = NoDoc
    /\ ehostid = NoDoc
    /\ eclock = NoDoc
    /\ eitems = <<>>
    /\ hist_fetches = 0
    /\ e_fetch = <<>>
    /\ e_sent = <<>>
    /\ eres = NoDoc

\* The variables of main() while another component is exercised.
MainIdle ==
    /\ mpc = "idle"
    /\ run = 0
    /\ clock = [sec |-> Sec(NowSec), frac |-> 0]
    /\ cfg = [zabbix |-> FALSE, uptime |-> FALSE, llm |-> FALSE]
    /\ src = [zbx |-> <<>>, upr |-> <<>>, llm |-> <<>>, payload |-> NoDoc]
    /\ z_task = [st |-> "none", result |-> <<>>]
    /\ u_task = [st |-> "none", result |-> <<>>]
    /\ done_order = <<>>
    /\ enrichments = <<>>
    /\ stage_out = <<>>
    /\ dispatched = <<>>
    /\ requests = <<>>
    /\ decision = NoDoc
    /\ prev = NoDoc

CorrInit ==
    /\ MainIdle
    /\ OtherIdle
    /\ \/ /\ zbx \in SeqsUpTo(ZbxEvents, MaxZbx)
          /\ upr \in MonitorInputs
       \/ /\ zbx \in SeqsUpTo(ZbxEvents \cup RaisingEvents, MaxZbx)
          /\ upr \in RaisingMonitors
    /\ now \in { [sec |-> Sec(NowSec), frac |-> f] : f \in {0, 1} }
    /\ groups = NoDoc
    /\ groups_std = NoDoc
    /\ cpc = "input"

\* One call of each correlate on the same inputs and clock reading; groups
\* and groups_std hold how the call ended: Ret(the list) or Exc(exception).
Correlate ==
    /\ UNCHANGED otherVars
    /\ cpc = "input"
    /\ groups' = correlate(zbx, upr, now)
    /\ groups_std' = correlate_stdlib(zbx, upr, now)
    /\ cpc' = "done"
    /\ UNCHANGED <<zbx, upr, now>>
    /\ UNCHANGED mainVars

SpecCorr == CorrInit /\ [][Correlate]_vars

InSeq(e, s) == \E k \in 1..Len(s) : s[k] = e

\* C1 for one result list gs computed over the flattened events evs.
WindowExact(gs, evs) ==
    \A gi \in 1..Len(gs) : \A ei \in 1..Len(evs) :
        LET d == TsSub(gs[gi].zabbix_ts, evs[ei].ts)
        IN  InSeq(evs[ei], gs[gi].matched_uptime)
                <=> (d <= TIME_WINDOW_MINUTES * 60 /\ -d <= TIME_WINDOW_MINUTES * 60)

\* C1: in the list a correlate call returns, every flattened uptime event
\* is in the matched list of a surviving incident event exactly when
\* |t - u| <= windowMinutes*60, whatever its position in the input (both
\* correlate implementations).
C1_WindowMembership ==
    cpc = "done" =>
        /\ groups.exc = "none" => WindowExact(groups.val, up_events(upr).val)
        /\ groups_std.exc = "none" =>
               WindowExact(groups_std.val, normalize_uptime_events(upr).val)

\* An event exactly on the edge is matched, and one a second beyond is not.
C1_Witness ==
    /\ cpc = "done"
    /\ groups.exc = "none"
    /\ \E gi \in 1..Len(groups.val) :
         LET g == groups.val[gi]
             evs == up_events(upr).val
         IN  /\ \E ei \in 1..Len(evs) :
                    /\ Abs(TsSub(g.zabbix_ts, evs[ei].ts)) = TIME_WINDOW_MINUTES * 60
                    /\ InSeq(evs[ei], g.matched_uptime)
             /\ \E ei \in 1..Len(evs) :
                    /\ Abs(TsSub(g.zabbix_ts, evs[ei].ts)) = TIME_WINDOW_MINUTES * 60 + 1
                    /\ ~InSeq(evs[ei], g.matched_uptime)

\* The incident events that must have a group: a parseable timestamp that
\* is not before now - lookbackMinutes.
Survivors(impl) ==
    { i \in 1..Len(zbx) :
        LET ts == EventTs(impl, zbx[i])
        IN  /\ ~NotTs(ts)
            /\ IF now.frac = 0
               THEN TsSub(ts, now.sec) >= -(LOOKBACK_MINUTES * 60)
               ELSE TsSub(ts, now.sec) > -(LOOKBACK_MINUTES * 60) }

SourceOrdered(ms) ==
    \A k \in 1..Len(ms) : \A l \in 1..Len(ms) :
        k < l => \/ ms[k].mon < ms[l].mon
                 \/ (ms[k].mon = ms[l].mon /\ ms[k].log < ms[l].log)

GroupsExact(gs, impl) ==
    /\ Len(gs) = Cardinality(Survivors(impl))
    /\ \A k \in 1..Len(gs) : gs[k].zidx \in Survivors(impl)
    /\ \A k \in 1..Len(gs) : \A l \in 1..Len(gs) : k < l => gs[k].zidx < gs[l].zidx
    /\ \A k \in 1..Len(gs) : SourceOrdered(gs[k].matched_uptime)

\* C2: the list of groups a correlate call returns is exactly the surviving
\* incident events, one group each, in input order, each matched list in
\* monitor-then-log order.
C2_GroupsAreSurvivors ==
    cpc = "done" =>
        /\ groups.exc = "none" => GroupsExact(groups.val, "multi_agent")
        /\ groups_std.exc = "none" => GroupsExact(groups_std.val, "stdlib")

\* Two groups in input order, the first with matches from two monitors;
\* and an input of which one event was discarded.
C2_Witness ==
    /\ cpc = "done"
    /\ groups.exc = "none"
    /\ Len(groups.val) = 2
    /\ groups.val[1].zidx < groups.val[2].zidx
    /\ \E a, b \in 1..Len(groups.val[1].matched_uptime) :
         groups.val[1].matched_uptime[a].mon < groups.val[1].matched_uptime[b].mon

C2_WitnessDiscard ==
    /\ cpc = "done"
    /\ groups.exc = "none"
    /\ Len(zbx) = 2
    /\ Len(groups.val) = 1
    /\ groups.val[1].zidx = 2

\* correlate does not return for every input: a timestamp field of digit
\* characters that int() rejects, or an incident timestamp outside the
\* years 1..9999, ends the call with ValueError.
CorrelateAlwaysReturns ==
    cpc = "done" => (groups.exc = "none" /\ groups_std.exc = "none")

\* The two implementations differ on a log whose first field is free text
\* and whose later field raises: only the stdlib one parses the later field.
CorrelateRaisesAlike ==
    cpc = "done" => (groups.exc = groups_std.exc)

(***************************************************************************)
(* SpecMain: rca_multi_agent.main, run twice against the same sources      *)
(***************************************************************************)
\* Mutant: the hypothesis agent is awaited before the correlation agent.
StageOrder_swapped ==
    <<"collector_agent", "hypothesis_agent", "correlation_agent",
      "verifier_agent", "decision_agent">>

\* The order in which main() awaits the five agents.
StageOrder ==
    <<"collector_agent", "correlation_agent", "hypothesis_agent",
      "verifier_agent", "decision_agent">>

StageNames == { StageOrder[i] : i \in 1..Len(StageOrder) }

NoStageOut == [s \in StageNames |-> NoDoc]

\* The stage main() is at: the first one in its order without an output.
CurrentStage ==
    StageOrder[CHOOSE i \in 1..Len(StageOrder) :
                   /\ stage_out[StageOrder[i]] = NoDoc
                   /\ \A j \in 1..(i - 1) : stage_out[StageOrder[j]] # NoDoc]

StagesLeft == \E s \in StageNames : stage_out[s] = NoDoc

\* The user payload each agent hands to llm_json.
StageInput(s) ==
    CASE s = "collector_agent" ->
            [groups |-> groups, enrichments |-> enrichments]
      [] s = "correlation_agent" ->
            [groups |-> groups, collected |-> stage_out["collector_agent"]]
      [] s = "hypothesis_agent" ->
            [correlation |-> stage_out["correlation_agent"]]
      [] s = "verifier_agent" ->
            [correlation |-> stage_out["correlation_agent"],
             hypotheses |-> stage_out["hypothesis_agent"]]
      [] OTHER ->
            [collected |-> stage_out["collector_agent"],
             correlation |-> stage_out["correlation_agent"],
             hypotheses |-> stage_out["hypothesis_agent"],
             verifier |-> stage_out["verifier_agent"]]

\* What identifies a reasoning-service request: role prompt and payload
\* (the model identifier is the same module constant in every request).
RequestKey(s) == [prompt |-> s, payload |-> StageInput(s)]

\* An event of problem.get: its clock, its hosts and its event id.
Event(clk, hosts, id) ==
    [clock |-> clk, event_time |-> RawNone, timestamp |-> RawNone,
     hosts |-> hosts, eventid |-> id]

Host(h) == [host |-> h, name |-> ""]

\* Scenarios of what the incident source holds: nothing; one event at the
\* lookback horizon; two events of the same host that carry the same event
\* id; two events of two hosts; an event without hosts; and an event whose
\* clock is made of digit characters that spell no integer.
MainZbxInputs ==
    { <<>>,
      <<Event(RawInt(NowSec - LOOKBACK_MINUTES * 60), <<Host("web1")>>, "101")>>,
      <<Event(RawDigits(NowSec - 100), <<Host("web1")>>, "101"),
        Event(RawInt(NowSec - LOOKBACK_MINUTES * 60), <<Host("web1")>>, "101")>>,
      <<Event(RawDigits(NowSec - 100), <<Host("web1")>>, "101"),
        Event(RawDigits(NowSec - 100), <<[host |-> "", name |-> "db1"]>>, "102")>>,
      <<OnlyClock(RawDigits(NowSec - 100))>>,
      <<Event(RawSupDigit, <<Host("web1")>>, "101")>> }

\* normalized_input.get("hostname") and .get("eventid") of the input
\* payload of main(); "" stands for None.
NoPayload == [hostname |-> "", eventid |-> ""]

MainPayloads == { NoPayload, [hostname |-> "web1", eventid |-> "101"] }

\* The (hostname, eventid) targets main() enriches: the pair of the input
\* payload, then the pair of each group that names both and is not yet seen.
Pairs(payload, gs) ==
    LET P[i \in 0..Len(gs)] ==
            IF i = 0
            THEN IF payload.hostname # "" /\ payload.eventid # ""
                 THEN <<payload>>
                 ELSE <<>>
            ELSE LET pr == [hostname |-> gs[i].hostname, eventid |-> gs[i].eventid]
                 IN  IF pr.hostname # "" /\ pr.eventid # "" /\ ~InSeq(pr, P[i - 1])
                     THEN Append(P[i - 1], pr)
                     ELSE P[i - 1]
    IN  P[Len(gs)]

MainUprInputs ==
    { <<>>, <<[logs |-> <<OnlyDatetime(RawInt(NowSec - 700))>>]>> }

\* Results of one enrichment target as main() sees them.
EnrichResults ==
    { [note |-> TRUE, host_anomaly_score |-> 0],
      [note |-> FALSE, host_anomaly_score |-> 6000] }

\* What the reasoning service answers to each agent.  "object": the content
\* is a JSON object; "nonobject": it is JSON but a list, string or number;
\* "raw": it is not JSON.
AllObject == [s \in StageNames |-> "object"]

LlmAnswers ==
    { AllObject,
      [AllObject EXCEPT !["decision_agent"] = "nonobject"],
      [AllObject EXCEPT !["decision_agent"] = "raw"],
      [AllObject EXCEPT !["hypothesis_agent"] = "nonobject"] }

\* Which of ZABBIX_*, UPTIMEROBOT_API_KEY and LLM_API_KEY are set.
Configurations ==
    { [zabbix |-> TRUE, uptime |-> TRUE, llm |-> TRUE],
      [zabbix |-> TRUE, uptime |-> TRUE, llm |-> FALSE],
      [zabbix |-> FALSE, uptime |-> TRUE, llm |-> TRUE],
      [zabbix |-> TRUE, uptime |-> FALSE, llm |-> TRUE] }

\* Later readings of the wall clock.
ClockAfter(c) ==
    { c, [sec |-> c.sec, frac |-> 1], [sec |-> Sec(NowSec + 1), frac |-> 0] }

Pending == [st |-> "none", result |-> <<>>]

MainInit ==
    /\ OtherIdle
    /\ mpc = "start"
    /\ run = 1
    /\ clock = [sec |-> Sec(NowSec), frac |-> 0]
    /\ cfg \in Configurations
    /\ src \in [zbx : MainZbxInputs, upr : MainUprInputs, llm : LlmAnswers,
                 payload : MainPayloads]
    /\ z_task = Pending
    /\ u_task = Pending
    /\ done_order = <<>>
    /\ enrichments = <<>>
    /\ stage_out = NoStageOut
    /\ dispatched = <<>>
    /\ requests = <<>>
    /\ decision = NoDoc
    /\ prev = NoDoc
    /\ zbx = <<>>
    /\ upr = <<>>
    /\ now = clock
    /\ groups = <<>>
    /\ groups_std = <<>>
    /\ cpc = "input"

\* z_task = create_task(fetch_zabbix_problems()); u_task = create_task(...)
CreateTasks ==
    /\ UNCHANGED otherVars
    /\ mpc = "start"
    /\ z_task' = [st |-> "running", result |-> <<>>]
    /\ u_task' = [st |-> "running", result |-> <<>>]
    /\ mpc' = "gather"
    /\ UNCHANGED <<run, clock, cfg, src, done_order, enrichments, stage_out,
                   dispatched, requests, decision, prev>>
    /\ UNCHANGED corrVars

\* fetch_zabbix_problems returns: [] without credentials, else the result.
ZFetchReturn ==
    /\ UNCHANGED otherVars
    /\ mpc = "gather"
    /\ z_task.st = "running"
    /\ z_task' = [st |-> "done",
                  result |-> IF cfg.zabbix THEN src.zbx ELSE <<>>]
    /\ done_order' = Append(done_order, "z")
    /\ UNCHANGED <<mpc, run, clock, cfg, src, u_task, enrichments, stage_out,
                   dispatched, requests, decision, prev>>
    /\ UNCHANGED corrVars

\* The HTTP request of fetch_zabbix_problems times out or fails.
ZFetchRaise ==
    /\ UNCHANGED otherVars
    /\ mpc = "gather"
    /\ z_task.st = "running"
    /\ cfg.zabbix
    /\ z_task' = [st |-> "failed", result |-> <<>>]
    /\ done_order' = Append(done_order, "z")
    /\ UNCHANGED <<mpc, run, clock, cfg, src, u_task, enrichments, stage_out,
                   dispatched, requests, decision, prev>>
    /\ UNCHANGED corrVars

UFetchReturn ==
    /\ UNCHANGED otherVars
    /\ mpc = "gather"
    /\ u_task.st = "running"
    /\ u_task' = [st |-> "done",
                  result |-> IF cfg.uptime THEN src.upr ELSE <<>>]
    /\ done_order' = Append(done_order, "u")
    /\ UNCHANGED <<mpc, run, clock, cfg, src, z_task, enrichments, stage_out,
                   dispatched, requests, decision, prev>>
    /\ UNCHANGED corrVars

UFetchRaise ==
    /\ UNCHANGED otherVars
    /\ mpc = "gather"
    /\ u_task.st = "running"
    /\ cfg.uptime
    /\ u_task' = [st |-> "failed", result |-> <<>>]
    /\ done_order' = Append(done_order, "u")
    /\ UNCHANGED <<mpc, run, clock, cfg, src, z_task, enrichments, stage_out,
                   dispatched, requests, decision, prev>>
    /\ UNCHANGED corrVars

\* await asyncio.gather(z_task, u_task) resumes when both tasks returned.
GatherReady == z_task.st = "done" /\ u_task.st = "done"

\* Mutant: the results come in the order the tasks completed.  Where the
\* uptime fetch completed first its monitors are taken for the incident
\* events and the incident events for the monitors: a monitor has no clock,
\* event_time or timestamp, and an incident event has no logs.
GatherResults_completion(z, u, order) ==
    IF Len(order) > 0 /\ order[1] = "u"
    THEN [zbx |-> [i \in 1..Len(u.result) |-> OnlyClock(RawNone)],
          upr |-> [i \in 1..Len(z.result) |-> [logs |-> <<>>]]]
    ELSE [zbx |-> z.result, upr |-> u.result]

\* asyncio.gather(z_task, u_task) returns the results in the order of its
\* arguments, whatever the order in which the tasks completed.
GatherResults(z, u, order) == [zbx |-> z.result, upr |-> u.result]

\* zbx, upr = await asyncio.gather(z_task, u_task)
GatherReturn ==
    /\ UNCHANGED otherVars
    /\ mpc = "gather"
    /\ GatherReady
    /\ zbx' = GatherResults(z_task, u_task, done_order).zbx
    /\ upr' = GatherResults(z_task, u_task, done_order).upr
    /\ mpc' = "correlate"
    /\ UNCHANGED <<run, clock, cfg, src, z_task, u_task, done_order,
                   enrichments, stage_out, dispatched, requests, decision, prev>>
    /\ UNCHANGED <<now, groups, groups_std, cpc>>

\* gather re-raises the first exception of a task; main() has no handler.
GatherRaise ==
    /\ UNCHANGED otherVars
    /\ mpc = "gather"
    /\ z_task.st = "failed" \/ u_task.st = "failed"
    /\ mpc' = "aborted"
    /\ UNCHANGED <<run, clock, cfg, src, z_task, u_task, done_order,
                   enrichments, stage_out, dispatched, requests, decision, prev>>
    /\ UNCHANGED corrVars

\* groups = correlate(zbx, upr), which reads the clock; main() has no
\* handler for an exception of correlate.
CorrelateStep ==
    /\ UNCHANGED otherVars
    /\ mpc = "correlate"
    /\ now' = clock
    /\ LET res == correlate(zbx, upr, clock)
       IN  IF res.exc = "none"
           THEN /\ groups' = res.val
                /\ cpc' = "done"
                /\ mpc' = "enrich"
           ELSE /\ UNCHANGED groups
                /\ cpc' = "raised"
                /\ mpc' = "aborted"
    /\ UNCHANGED <<run, clock, cfg, src, z_task, u_task, done_order,
                   enrichments, stage_out, dispatched, requests, decision, prev>>
    /\ UNCHANGED <<zbx, upr, groups_std>>

\* enrichments = await gather(enrich_one(h, e) for h, e in pairs) if pairs
\* else []: one result per target, in the order of the targets, each target
\* enriched on its own (one may get metrics while another gets the note of
\* an unknown host).  Without Zabbix credentials every enrichment returns
\* its note and sends no request.
EnrichReturn ==
    /\ UNCHANGED otherVars
    /\ mpc = "enrich"
    /\ LET pairs == Pairs(src.payload, groups)
       IN  \E rs \in [1..Len(pairs) -> EnrichResults] :
              /\ ~cfg.zabbix => \A i \in 1..Len(pairs) : rs[i].note
              /\ enrichments' =
                    [i \in 1..Len(pairs) |->
                        [hostname |-> pairs[i].hostname,
                         eventid |-> pairs[i].eventid,
                         note |-> rs[i].note,
                         host_anomaly_score |-> rs[i].host_anomaly_score]]
    /\ mpc' = "stage"
    /\ UNCHANGED <<run, clock, cfg, src, z_task, u_task, done_order,
                   stage_out, dispatched, requests, decision, prev>>
    /\ UNCHANGED corrVars

\* A Zabbix request of one enrichment target raises: gather re-raises it.
\* There is a request only if there is a target and Zabbix is configured.
EnrichRaise ==
    /\ UNCHANGED otherVars
    /\ mpc = "enrich"
    /\ Pairs(src.payload, groups) # <<>>
    /\ cfg.zabbix
    /\ mpc' = "aborted"
    /\ UNCHANGED <<run, clock, cfg, src, z_task, u_task, done_order,
                   enrichments, stage_out, dispatched, requests, decision, prev>>
    /\ UNCHANGED corrVars

AfterStage(so) ==
    IF \E s \in StageNames : so[s] = NoDoc THEN "stage" ELSE "calibrate"

\* An agent calls llm_json; without LLM_API_KEY it returns the fallback
\* document at once, otherwise the request goes to the reasoning service.
StageCall ==
    /\ UNCHANGED otherVars
    /\ mpc = "stage"
    /\ StagesLeft
    /\ dispatched' = Append(dispatched, CurrentStage)
    /\ IF cfg.llm
       THEN /\ requests' = Append(requests, RequestKey(CurrentStage))
            /\ mpc' = "await"
            /\ UNCHANGED stage_out
       ELSE /\ stage_out' = [stage_out EXCEPT ![CurrentStage] = [kind |-> "fallback"]]
            /\ mpc' = AfterStage(stage_out')
            /\ UNCHANGED requests
    /\ UNCHANGED <<run, clock, cfg, src, z_task, u_task, done_order,
                   enrichments, decision, prev>>
    /\ UNCHANGED corrVars

\* The reasoning service answered: llm_json returns the parsed content, or
\* {"raw": content} when the content is not JSON.
StageReturn ==
    /\ UNCHANGED otherVars
    /\ mpc = "await"
    /\ stage_out' = [stage_out EXCEPT ![CurrentStage] = [kind |-> src.llm[CurrentStage]]]
    /\ mpc' = AfterStage(stage_out')
    /\ UNCHANGED <<run, clock, cfg, src, z_task, u_task, done_order,
                   enrichments, dispatched, requests, decision, prev>>
    /\ UNCHANGED corrVars

\* The request timed out, the transport or the HTTP status failed, or the
\* response had an empty "choices" list: llm_json lets the exception out.
StageRaise ==
    /\ UNCHANGED otherVars
    /\ mpc = "await"
    /\ mpc' = "aborted"
    /\ UNCHANGED <<run, clock, cfg, src, z_task, u_task, done_order,
                   enrichments, stage_out, dispatched, requests, decision, prev>>
    /\ UNCHANGED corrVars

\* conf_meta = calibrate_confidence(decision_raw, ...);
\* decision = apply_guardrail(decision_raw, conf_meta).
\* decision_raw.get raises when the decision agent returned a non-object.
CalibrateAndGuard ==
    /\ UNCHANGED otherVars
    /\ mpc = "calibrate"
    /\ IF stage_out["decision_agent"].kind = "nonobject"
       THEN /\ mpc' = "aborted"
            /\ UNCHANGED decision
       ELSE /\ decision' = [kind |-> "decision", raw |-> stage_out["decision_agent"]]
            /\ mpc' = "deliver"
    /\ UNCHANGED <<run, clock, cfg, src, z_task, u_task, done_order,
                   enrichments, stage_out, dispatched, requests, prev>>
    /\ UNCHANGED corrVars

\* KB match, ServiceDesk flow, report and Teams message all went through.
DeliverReturn ==
    /\ UNCHANGED otherVars
    /\ mpc = "deliver"
    /\ mpc' = "done"
    /\ UNCHANGED <<run, clock, cfg, src, z_task, u_task, done_order,
                   enrichments, stage_out, dispatched, requests, decision, prev>>
    /\ UNCHANGED corrVars

\* A ServiceDesk or Teams request raised.
DeliverRaise ==
    /\ UNCHANGED otherVars
    /\ mpc = "deliver"
    /\ mpc' = "aborted"
    /\ UNCHANGED <<run, clock, cfg, src, z_task, u_task, done_order,
                   enrichments, stage_out, dispatched, requests, decision, prev>>
    /\ UNCHANGED corrVars

\* main() is invoked a second time, at the same or a later clock reading.
SecondRun ==
    /\ UNCHANGED otherVars
    /\ mpc \in {"done", "aborted"}
    /\ run = 1
    /\ run' = 2
    /\ prev' = [kind |-> "run", cpc |-> cpc, zbx |-> zbx, upr |-> upr,
                z_result |-> z_task.result, u_result |-> u_task.result,
                now |-> now, groups |-> groups,
                done_order |-> done_order, requests |-> requests]
    /\ clock' \in ClockAfter(clock)
    /\ mpc' = "start"
    /\ z_task' = Pending
    /\ u_task' = Pending
    /\ done_order' = <<>>
    /\ enrichments' = <<>>
    /\ stage_out' = NoStageOut
    /\ dispatched' = <<>>
    /\ requests' = <<>>
    /\ decision' = NoDoc
    /\ zbx' = <<>>
    /\ upr' = <<>>
    /\ now' = clock'
    /\ groups' = <<>>
    /\ cpc' = "input"
    /\ UNCHANGED <<cfg, src, groups_std>>

MainNext ==
    \/ CreateTasks
    \/ ZFetchReturn
    \/ ZFetchRaise
    \/ UFetchReturn
    \/ UFetchRaise
    \/ GatherReturn
    \/ GatherRaise
    \/ CorrelateStep
    \/ EnrichReturn
    \/ EnrichRaise
    \/ StageCall
    \/ StageReturn
    \/ StageRaise
    \/ CalibrateAndGuard
    \/ DeliverReturn
    \/ DeliverRaise
    \/ SecondRun

SpecMain == MainInit /\ [][MainNext]_vars

(***************************************************************************)
(* Claims about main()                                                     *)
(***************************************************************************)
\* Both invocations ran correlate to its end, and the two fetches of the
\* second returned the incident events and the uptime events that the two
\* fetches of the first returned.
SameEventsFetched ==
    /\ run = 2
    /\ cpc = "done"
    /\ prev.cpc = "done"
    /\ z_task.st = "done" /\ z_task.result = prev.z_result
    /\ u_task.st = "done" /\ u_task.result = prev.u_result

\* the fetches of the two invocations completed in opposite orders
OppositeFetchOrder ==
    /\ Len(done_order) = 2
    /\ Len(prev.done_order) = 2
    /\ done_order # prev.done_order

BothFetchesResolved ==
    (run > 0 /\ cpc = "done") => (z_task.st = "done" /\ u_task.st = "done")

\* C3 as stated: two invocations of correlate on identical incident events
\* and identical uptime events return identical groups, whichever of the two
\* fetches completed first, and correlation never starts before both fetches
\* resolved.
C3_SameEventsSameGroups ==
    /\ BothFetchesResolved
    /\ SameEventsFetched => groups = prev.groups

\* C3 amended: two invocations of correlate on identical incident events and
\* identical uptime events, at the same clock reading, return identical
\* groups, whichever of the two fetches completed first: correlate is handed
\* the incident events as its first and the uptime events as its second
\* argument in either order of completion.  Correlation never starts before
\* both fetches resolved.
C3_SameEventsSameClockSameGroups ==
    /\ BothFetchesResolved
    /\ (SameEventsFetched /\ now = prev.now) =>
          /\ groups = prev.groups
          /\ zbx = z_task.result /\ zbx = prev.zbx
          /\ upr = u_task.result /\ upr = prev.upr

\* Two runs at the same clock reading whose fetches completed in opposite
\* orders, with an incident event that matched an uptime event.
C3_Witness ==
    /\ SameEventsFetched
    /\ now = prev.now
    /\ OppositeFetchOrder
    /\ Len(groups) > 0
    /\ Len(groups[1].matched_uptime) > 0

IsPrefix(s, t) ==
    /\ Len(s) <= Len(t)
    /\ \A i \in 1..Len(s) : s[i] = t[i]

\* C4: in every run the agents are called in the fixed order collector,
\* correlation, hypothesis, verifier, decision; an agent is called only when
\* the output of the agent before it is available, and the calibrated,
\* guarded decision exists only after the decision agent returned.
C4_FixedStageOrder ==
    /\ IsPrefix(dispatched,
                <<"collector_agent", "correlation_agent", "hypothesis_agent",
                  "verifier_agent", "decision_agent">>)
    /\ IsPrefix([i \in 1..Len(requests) |-> requests[i].prompt], dispatched)
    /\ \A i \in 2..Len(dispatched) : stage_out[dispatched[i - 1]] # NoDoc
    /\ decision # NoDoc =>
          /\ Len(dispatched) = 5
          /\ stage_out["decision_agent"] # NoDoc

\* All five agents were called and the guarded decision was produced.
C4_Witness ==
    /\ Len(dispatched) = 5
    /\ Len(requests) = 5
    /\ decision # NoDoc
    /\ mpc = "done"

\* C5: a run always completes and produces a Decision, whatever the outcomes
\* of its external calls: it never aborts, and a finished run has a Decision.
C5_AlwaysDecision ==
    /\ mpc # "aborted"
    /\ mpc = "done" => decision # NoDoc

\* C6: a reasoning-stage call whose key (role prompt, stage input, model)
\* was already requested within the TTL is served from the cache: the same
\* key is never sent to the reasoning service a second time.
C6_NoRepeatedRequest ==
    run = 2 =>
        \A i \in 1..Len(requests) :
            \A j \in 1..Len(prev.requests) : requests[i] # prev.requests[j]

(***************************************************************************)
(* SpecCache: TTLCache (rca_full_async_stdlib) and cache_get / cache_set   *)
(* (rca_other) under set, get and cleanup at advancing times               *)
(***************************************************************************)
MaxTime == 3

\* The calls of TTLCache that may be in flight at once.
MaxPending == 2

Keys == {"k1", "k2"}

\* ttl_sec of TTLCache.set and ttl of cache_get.
Ttls == {1, 2}

\* Python values.
None == [py |-> "None", id |-> 0]

\* The values handed to set: parsed JSON documents, null among them (the
\* content "null" of a reasoning-service answer, a null "result").
PyValues == { [py |-> "dict", id |-> 1], [py |-> "list", id |-> 2], None }

\* json.dumps(value): the text stored in column v
Dumps(v) ==
    CASE v.py = "dict" -> [json |-> "object", id |-> v.id]
      [] v.py = "list" -> [json |-> "array", id |-> v.id]
      [] OTHER -> [json |-> "null", id |-> 0]

\* json.loads(text)
Loads(t) ==
    CASE t.json = "object" -> [py |-> "dict", id |-> t.id]
      [] t.json = "array" -> [py |-> "list", id |-> t.id]
      [] OTHER -> None

NoRow == [kind |-> "norow"]

\* TTLCache.get / cleanup: exp < now
Expired(exp, t) == exp < t

\* cache_get: now - ts > ttl
TooOld(ts, ttl, t) == t - ts > ttl

CacheInit ==
    /\ MainIdle
    /\ LaterIdle
    /\ zbx = <<>>
    /\ upr = <<>>
    /\ now = [sec |-> Sec(NowSec), frac |-> 0]
    /\ groups = <<>>
    /\ groups_std = <<>>
    /\ cpc = "idle"
    /\ cimpl \in {"TTLCache", "rca_other"}
    /\ cache = [k \in Keys |-> NoRow]
    /\ ctime = 0
    /\ written = [k \in Keys |-> NoSet]
    /\ got = NoGot
    /\ cdel = [k \in Keys |-> 0]
    /\ cbegun = EmptyBag
    /\ points = <<>>
    /\ summary = NoDoc
    /\ epc = "idle"
    /\ ein = NoDoc
    /\ ehostid = NoDoc
    /\ eclock = NoDoc
    /\ eitems = <<>>
    /\ hist_fetches = 0
    /\ e_fetch = <<>>
    /\ e_sent = <<>>
    /\ eres = NoDoc

PendingDeletes == cdel["k1"] + cdel["k2"]

\* A call of TTLCache that has read the clock and not yet run its
\* statement: the operation, its arguments and the time it read.
Call(op, k, v, ttl, t) ==
    [op |-> op, key |-> k, v |-> v, ttl |-> ttl, now |-> t]

SetCalls ==
    { Call("set", k, v, ttl, t) :
        k \in Keys, v \in PyValues, ttl \in Ttls, t \in 0..MaxTime }

GetCalls == { Call("get", k, None, 0, t) : k \in Keys, t \in 0..MaxTime }

CleanupCalls == { Call("cleanup", "", None, 0, t) : t \in 0..MaxTime }

\* The calls of TTLCache run in worker threads (asyncio.to_thread) on one
\* connection: a call is in flight from its reading of the clock to its
\* last statement.
CallsInFlight == BagCardinality(cbegun) + PendingDeletes

\* TTLCache.set(key, value, ttl_sec), its first line:
\* exp = int(time.time()) + ttl_sec.
TTLCacheSet(k, v, ttl) ==
    /\ cimpl = "TTLCache"
    /\ CallsInFlight < MaxPending
    /\ cbegun' = cbegun (+) SetToBag({Call("set", k, v, ttl, ctime)})
    /\ got' = NoGot
    /\ UNCHANGED <<cimpl, cache, ctime, written, cdel>>
    /\ UNCHANGED <<laterVars, corrVars, mainVars, seriesVars, enrichVars>>

\* TTLCache.set: INSERT .. ON CONFLICT DO UPDATE with the exp computed
\* from the time the call read, whatever the time is now.
TTLCacheSetInsert(c) ==
    /\ cimpl = "TTLCache"
    /\ BagIn(c, cbegun)
    /\ cbegun' = cbegun (-) SetToBag({c})
    /\ cache' = [cache EXCEPT ![c.key] = [v |-> Dumps(c.v),
                                          exp |-> c.now + c.ttl]]
    /\ written' = [written EXCEPT ![c.key] = [at |-> c.now, ttl |-> c.ttl,
                                              v |-> c.v]]
    /\ got' = NoGot
    /\ UNCHANGED <<cimpl, ctime, cdel>>
    /\ UNCHANGED <<laterVars, corrVars, mainVars, seriesVars, enrichVars>>

\* TTLCache.get(key), its first line: now = int(time.time()).
TTLCacheGet(k) ==
    /\ cimpl = "TTLCache"
    /\ CallsInFlight < MaxPending
    /\ cbegun' = cbegun (+) SetToBag({Call("get", k, None, 0, ctime)})
    /\ got' = NoGot
    /\ UNCHANGED <<cimpl, cache, ctime, written, cdel>>
    /\ UNCHANGED <<laterVars, corrVars, mainVars, seriesVars, enrichVars>>

\* TTLCache.get(key) from its SELECT to its return or its DELETE: the row
\* is selected, and what the call returns is settled: None without a row
\* or with one past its expiry at the time the call read, else the stored
\* value.  With a row past its expiry the call goes on to its DELETE, a
\* second statement on the connection that all threads share.
TTLCacheGetSelect(c) ==
    /\ cimpl = "TTLCache"
    /\ BagIn(c, cbegun)
    /\ cbegun' = cbegun (-) SetToBag({c})
    /\ IF cache[c.key] = NoRow
       THEN /\ got' = [key |-> c.key, ttl |-> 0, at |-> c.now,
                       result |-> None]
            /\ UNCHANGED cdel
       ELSE IF Expired(cache[c.key].exp, c.now)
       THEN /\ got' = [key |-> c.key, ttl |-> 0, at |-> c.now,
                       result |-> None]
            /\ cdel' = [cdel EXCEPT ![c.key] = @ + 1]
       ELSE /\ got' = [key |-> c.key, ttl |-> 0, at |-> c.now,
                       result |-> Loads(cache[c.key].v)]
            /\ UNCHANGED cdel
    /\ UNCHANGED <<cimpl, cache, ctime, written>>
    /\ UNCHANGED <<laterVars, corrVars, mainVars, seriesVars, enrichVars>>

\* TTLCache.get(key): DELETE FROM cache WHERE k = ?, commit, return None.
\* The statement names the key only: it removes the row the key has now.
TTLCacheGetDelete(k) ==
    /\ cimpl = "TTLCache"
    /\ cdel[k] > 0
    /\ cdel' = [cdel EXCEPT ![k] = @ - 1]
    /\ cache' = [cache EXCEPT ![k] = NoRow]
    /\ got' = NoGot
    /\ UNCHANGED <<cimpl, ctime, written, cbegun>>
    /\ UNCHANGED <<laterVars, corrVars, mainVars, seriesVars, enrichVars>>

\* TTLCache.cleanup(): the argument int(time.time()) of its statement.
TTLCacheCleanup ==
    /\ cimpl = "TTLCache"
    /\ CallsInFlight < MaxPending
    /\ cbegun' = cbegun (+) SetToBag({Call("cleanup", "", None, 0, ctime)})
    /\ got' = NoGot
    /\ UNCHANGED <<cimpl, cache, ctime, written, cdel>>
    /\ UNCHANGED <<laterVars, corrVars, mainVars, seriesVars, enrichVars>>

\* TTLCache.cleanup(): DELETE FROM cache WHERE exp < ?, with the time the
\* call read.
TTLCacheCleanupDelete(c) ==
    /\ cimpl = "TTLCache"
    /\ BagIn(c, cbegun)
    /\ cbegun' = cbegun (-) SetToBag({c})
    /\ cache' = [k \in Keys |->
                    IF cache[k] # NoRow /\ Expired(cache[k].exp, c.now)
                    THEN NoRow ELSE cache[k]]
    /\ got' = NoGot
    /\ UNCHANGED <<cimpl, ctime, written, cdel>>
    /\ UNCHANGED <<laterVars, corrVars, mainVars, seriesVars, enrichVars>>

\* rca_other.cache_set(key, val)
cache_set(k, v) ==
    /\ cimpl = "rca_other"
    /\ cache' = [cache EXCEPT ![k] = [v |-> Dumps(v), ts |-> ctime]]
    /\ written' = [written EXCEPT ![k] = [at |-> ctime, v |-> v]]
    /\ got' = NoGot
    /\ UNCHANGED <<cimpl, ctime, cdel, cbegun>>
    /\ UNCHANGED <<laterVars, corrVars, mainVars, seriesVars, enrichVars>>

\* rca_other.cache_get(key, ttl): one SELECT, nothing is deleted
cache_get(k, ttl) ==
    /\ cimpl = "rca_other"
    /\ got' = [key |-> k, ttl |-> ttl, at |-> ctime,
               result |-> IF cache[k] = NoRow THEN None
                          ELSE IF TooOld(cache[k].ts, ttl, ctime) THEN None
                          ELSE Loads(cache[k].v)]
    /\ UNCHANGED <<cimpl, cache, ctime, written, cdel, cbegun>>
    /\ UNCHANGED <<laterVars, corrVars, mainVars, seriesVars, enrichVars>>

\* One second passes.
CacheTick ==
    /\ cimpl \in {"TTLCache", "rca_other"}
    /\ ctime < MaxTime
    /\ ctime' = ctime + 1
    /\ got' = NoGot
    /\ UNCHANGED <<cimpl, cache, written, cdel, cbegun>>
    /\ UNCHANGED <<laterVars, corrVars, mainVars, seriesVars, enrichVars>>

\* The operations run in worker threads (asyncio.to_thread): any statement
\* may run, and the clock may advance, between the lines of a call.
CacheNext ==
    \/ \E k \in Keys, v \in PyValues, ttl \in Ttls : TTLCacheSet(k, v, ttl)
    \/ \E c \in SetCalls : TTLCacheSetInsert(c)
    \/ \E k \in Keys : TTLCacheGet(k)
    \/ \E c \in GetCalls : TTLCacheGetSelect(c)
    \/ \E k \in Keys : TTLCacheGetDelete(k)
    \/ TTLCacheCleanup
    \/ \E c \in CleanupCalls : TTLCacheCleanupDelete(c)
    \/ \E k \in Keys, v \in PyValues : cache_set(k, v)
    \/ \E k \in Keys, ttl \in Ttls : cache_get(k, ttl)
    \/ CacheTick

SpecCache == CacheInit /\ [][CacheNext]_vars

\* The TTL that governs a get: the one given to the most recent set
\* (TTLCache) or the one given to the get itself (rca_other).
GoverningTtl == IF cimpl = "TTLCache" THEN written[got.key].ttl ELSE got.ttl

\* The most recent set of the key of the get is not past its expiry.
Unexpired ==
    /\ written[got.key] # NoSet
    /\ got.at <= written[got.key].at + GoverningTtl

\* C7 as stated: after any sequence of set, get and cleanup at advancing
\* times, get returns a value exactly when the key was set and the time of
\* the get is not past the time of the most recent set plus the TTL, and
\* that value is the one written by the most recent set.
C7_GetIffUnexpired ==
    got # NoGot =>
        /\ got.result # None <=> Unexpired
        /\ got.result # None => got.result = written[got.key].v

\* Without the null: get returns a value exactly when the key was set, the
\* most recent set wrote a value other than null and the time of the get is
\* not past the time of that set plus the TTL.  (A stored null is reported
\* as None, like a miss.)  It holds of rca_other, whose cache_get deletes
\* nothing, and not of TTLCache: the DELETE of a get that saw the previous,
\* expired row removes the row a set wrote in between.
GetIffUnexpiredNonNull ==
    got # NoGot =>
        /\ got.result # None <=> (Unexpired /\ written[got.key].v # None)
        /\ got.result # None => got.result = written[got.key].v

GetIffUnexpiredNonNull_rca_other == cimpl = "rca_other" => GetIffUnexpiredNonNull

\* What a get returns is never stale: a value returned is the one the most
\* recent set wrote, and that set is not past its expiry.
GetReturnsOnlyLiveValue ==
    (got # NoGot /\ got.result # None) =>
        /\ Unexpired
        /\ got.result = written[got.key].v

\* A get in the very second the entry expires, after the key was overwritten
\* at a later time than time 0, returned the value.
GetAtExpirySecond ==
    /\ got # NoGot
    /\ got.result # None
    /\ written[got.key] # NoSet
    /\ written[got.key].at > 0
    /\ got.at = written[got.key].at + GoverningTtl

\* A row that a set wrote is in the table until its expiry has passed.
RowKeptUntilExpiry ==
    \A k \in Keys :
        (cimpl = "TTLCache" /\ written[k] # NoSet
           /\ ctime <= written[k].at + written[k].ttl) => cache[k] # NoRow

(***************************************************************************)
(* SpecSeries: summarize_series.  Samples are integers; anomaly_score is   *)
(* kept in units of 10^-4 (the score is rounded to four decimals).         *)
(***************************************************************************)
MaxPoints == 3

Samples == {-2, 0, 1, 3}

RECURSIVE SumSeq(_)
SumSeq(xs) == IF xs = <<>> THEN 0 ELSE Head(xs) + SumSeq(Tail(xs))

MinSeq(xs) == CHOOSE m \in { xs[i] : i \in 1..Len(xs) } :
                  \A i \in 1..Len(xs) : m <= xs[i]

MaxSeq(xs) == CHOOSE m \in { xs[i] : i \in 1..Len(xs) } :
                  \A i \in 1..Len(xs) : m >= xs[i]

\* the multiple of 1/q nearest to p, ties to even, in exact arithmetic
\* (p >= 0, q > 0)
RoundHalfEven(p, q) ==
    LET f == p \div q
        rem == p % q
    IN  IF 2 * rem < q THEN f
        ELSE IF 2 * rem > q THEN f + 1
        ELSE IF f % 2 = 0 THEN f ELSE f + 1

(***************************************************************************)
(* Python floats (IEEE-754 binary64), as far as the scores need them:      *)
(* values >= 0, sums, products, quotients and round(x, ndigits).           *)
(*                                                                         *)
(* A mantissa is a natural number of any size, held as the sequence of its *)
(* limbs below Base, lowest first and without leading zero limbs; <<>> is  *)
(* 0.  An operator takes a value it uses more than once as a parameter.    *)
(***************************************************************************)
Base == 2 ^ 15

Max2(a, b) == IF a >= b THEN a ELSE b

\* the number of bits of n < 2^30
BitLen(n) == CHOOSE k \in 0..30 : n < 2 ^ k /\ (k = 0 \/ n >= 2 ^ (k - 1))

LimbBits == BitLen(Base - 1)

Limb(a, i) == IF i >= 1 /\ i <= Len(a) THEN a[i] ELSE 0

\* a without its leading zero limbs
NNorm(a) ==
    LET nz == {i \in 1..Len(a) : a[i] # 0}
    IN  IF nz = {} THEN <<>>
        ELSE SubSeq(a, 1, CHOOSE i \in nz : \A j \in nz : j <= i)

\* a natural below 2^31
NFromInt(n) == NNorm(<<n % Base, (n \div Base) % Base, n \div (Base * Base)>>)

\* the value of a natural below 2^30
NToInt(a) == Limb(a, 1) + Base * Limb(a, 2)

\* the natural with the limb sums t, each below 2 * Base - 1: limb i takes a
\* carry when a lower sum overflows and every sum between passes the carry on
NCarry(t) ==
    NNorm([i \in 1..Len(t) |->
              (t[i] + IF \E j \in 1..(i - 1) :
                            t[j] >= Base /\ \A k \in (j + 1)..(i - 1) : t[k] = Base - 1
                      THEN 1 ELSE 0) % Base])

\* a + b
NAdd(a, b) ==
    NCarry([i \in 1..(Max2(Len(a), Len(b)) + 1) |-> Limb(a, i) + Limb(b, i)])

\* the natural with the limb differences d: limb i lends when a lower
\* difference falls short and every difference between is zero
NBorrow(d) ==
    NNorm([i \in 1..Len(d) |->
              (d[i] - IF \E j \in 1..(i - 1) :
                            d[j] < 0 /\ \A k \in (j + 1)..(i - 1) : d[k] = 0
                      THEN 1 ELSE 0) % Base])

\* a - b for a >= b
NSub(a, b) == NBorrow([i \in 1..Len(a) |-> a[i] - Limb(b, i)])

\* -1, 0, 1 as a < b, a = b, a > b
NCmp(a, b) ==
    IF Len(a) # Len(b) THEN (IF Len(a) < Len(b) THEN -1 ELSE 1)
    ELSE LET df == {i \in 1..Len(a) : a[i] # b[i]}
             top == CHOOSE i \in df : \A j \in df : j <= i
         IN  IF df = {} THEN 0 ELSE IF a[top] < b[top] THEN -1 ELSE 1

\* the natural with the limb sums t, each below Base * Base
NSplit(t) ==
    NAdd([i \in 1..Len(t) |-> t[i] % Base],
         <<0>> \o [i \in 1..Len(t) |-> t[i] \div Base])

\* a * k for 0 <= k < Base
NMulSmall(a, k) == NSplit([i \in 1..Len(a) |-> a[i] * k])

\* a * Base^k
NShlLimbs(a, k) == IF a = <<>> THEN a ELSE [i \in 1..k |-> 0] \o a

\* a * b for b < Base^4: limb i sums the low parts of the products of limbs
\* that meet at i and the high parts of those that meet at i - 1
NMul(a, b) ==
    LET L(i, j) == (Limb(a, i) * Limb(b, j)) % Base
        H(i, j) == (Limb(a, i) * Limb(b, j)) \div Base
    IN  NSplit([i \in 1..(Len(a) + 4) |->
                   L(i, 1) + L(i - 1, 2) + L(i - 2, 3) + L(i - 3, 4)
                   + H(i - 1, 1) + H(i - 2, 2) + H(i - 3, 3) + H(i - 4, 4)])

\* a * 2^n
NShl(a, n) == NShlLimbs(NMulSmall(a, 2 ^ (n % LimbBits)), n \div LimbBits)

\* floor(a / 2^n)
NShr(a, n) ==
    LET k == n \div LimbBits
        r == n % LimbBits
        h == IF k >= Len(a) THEN <<>> ELSE SubSeq(a, k + 1, Len(a))
    IN  NNorm([i \in 1..Len(h) |->
                  (h[i] \div 2 ^ r) + (Limb(h, i + 1) % 2 ^ r) * 2 ^ (LimbBits - r)])

\* the number of bits of a
NBitLen(a) == IF a = <<>> THEN 0 ELSE LimbBits * (Len(a) - 1) + BitLen(a[Len(a)])

\* -1, 0, 1 as the low n bits of a are below, at or above 2^(n-1), n >= 1:
\* by bit n - 1 of a and whether a bit below it is set
NHalf(a, n) ==
    LET k == (n - 1) \div LimbBits
        r == (n - 1) % LimbBits
    IN  IF (Limb(a, k + 1) \div 2 ^ r) % 2 = 0 THEN -1
        ELSE IF Limb(a, k + 1) % 2 ^ r = 0 /\ \A i \in 1..k : Limb(a, i) = 0 THEN 0
        ELSE 1

\* q, or q + 1 where what was cut off q lies above the half (c = 1) or at
\* the half (c = 0) with more beyond it (sticky) or with q odd
NNearest(q, c, sticky) ==
    IF c = 1 \/ (c = 0 /\ (sticky \/ Limb(q, 1) % 2 = 1)) THEN NAdd(q, <<1>>) ELSE q

\* One limb of a long division by v: qs with floor(r / v) put before it, and
\* what the limb leaves of r, where r < v * Base and q is an estimate of the
\* limb that is not below it.
RECURSIVE Fit(_, _, _, _)
Fit(r, v, q, qs) ==
    IF NCmp(NMulSmall(v, q), r) < 1
    THEN [q |-> <<q>> \o qs, r |-> NSub(r, NMulSmall(v, q))]
    ELSE Fit(r, v, q - 1, qs)

\* The limb estimated from the top limbs of r, for v with a full top limb.
Digit(r, v, qs) ==
    LET est == (Limb(r, Len(v) + 1) * Base + Limb(r, Len(v))) \div v[Len(v)]
    IN  Fit(r, v, IF est > Base - 1 THEN Base - 1 ELSE est, qs)

\* the next limb of u taken into the division d by v
Step(d, x, v) == Digit(NNorm(<<x>> \o d.r), v, d.q)

\* The long division of u by v continued from d, the limbs of the quotient
\* found so far and the remainder they leave, to five limbs.
RECURSIVE NDivFrom(_, _, _)
NDivFrom(u, v, d) ==
    IF Len(d.q) = 5 THEN d ELSE NDivFrom(u, v, Step(d, u[5 - Len(d.q)], v))

\* The five limbs q of floor(u / v) and the remainder r, for v with a full
\* top limb and u four limbs longer than v: long division by limbs.
NDivMod(u, v) ==
    NDivFrom(u, v, [q |-> <<>>, r |-> NNorm(SubSeq(u, 6, Len(v) + 4))])

\* the bits of the mantissa of a binary64 value
Precision == 53

\* A float is [m, e] for m * 2^e with 2^52 <= m < 2^53, and FZero.
FZero == [m |-> <<>>, e |-> 0]

\* m * 2^e for m of 53 or 54 bits
FNormal(m, e) ==
    IF NBitLen(m) > Precision THEN [m |-> NShr(m, 1), e |-> e + 1]
    ELSE [m |-> m, e |-> e]

\* n * 2^e for n > 0 of sh bits more than a mantissa
FRoundBy(n, sticky, e, sh) ==
    IF sh <= 0 THEN [m |-> NShl(n, -sh), e |-> e + sh]
    ELSE FNormal(NNearest(NShr(n, sh), NHalf(n, sh), sticky), e + sh)

\* n * 2^e, n of any size, as the nearest float, ties to the even mantissa;
\* sticky tells that the exact value lies a little above n * 2^e.
FRound(n, sticky, e) ==
    IF n = <<>> THEN FZero ELSE FRoundBy(n, sticky, e, NBitLen(n) - Precision)

\* float(n) for an integer 0 <= n < 2^31
FFromInt(n) == FRound(NFromInt(n), FALSE, 0)

\* x * y
FMul(x, y) ==
    IF x.m = <<>> \/ y.m = <<>> THEN FZero
    ELSE FRound(NMul(x.m, y.m), FALSE, x.e + y.e)

\* x + y
FAdd(x, y) ==
    IF x.m = <<>> THEN y
    ELSE IF y.m = <<>> THEN x
    ELSE LET e == IF x.e < y.e THEN x.e ELSE y.e
         IN  FRound(NAdd(NShl(x.m, x.e - e), NShl(y.m, y.e - e)), FALSE, e)

\* the quotient d * 2^e of a long division as a float
FQuot(d, e) == FRound(NNorm(d.q), d.r # <<>>, e)

\* x / y for y > 0: the divisor scaled to a full top limb, the dividend to
\* four limbs more, which leaves a quotient of 59 bits or more to round
FDiv(x, y) ==
    IF y.m = <<>> \/ x.m = <<>> THEN FZero
    ELSE LET s == LimbBits * Len(y.m) - Precision
         IN  FQuot(NDivMod(NShl(x.m, s + 4 * LimbBits), NShl(y.m, s)),
                   x.e - y.e - 4 * LimbBits)

\* p / q for integers p >= 0, q > 0, which is also the float that the
\* decimal literal of p / q stands for
FRatio(p, q) == FDiv(FFromInt(p), FFromInt(q))

\* -1, 0, 1 as x < y, x = y, x > y
FCmp(x, y) ==
    IF x.m = <<>> \/ y.m = <<>>
    THEN (IF x.m = y.m THEN 0 ELSE IF x.m = <<>> THEN -1 ELSE 1)
    ELSE IF x.e # y.e THEN (IF x.e < y.e THEN -1 ELSE 1)
    ELSE NCmp(x.m, y.m)

FOne == FFromInt(1)

\* round(x, ndigits) in units of 10^-ndigits, ndigits <= 4 and the result
\* below 2^30: the integer nearest to x * 10^ndigits, a tie of the exact
\* binary value to the even one (the float round() returns is the one
\* nearest to that many units)
RoundAt(n, e) ==
    IF e >= 0 THEN NToInt(NShl(n, e))
    ELSE NToInt(NNearest(NShr(n, -e), NHalf(n, -e), FALSE))

round(x, ndigits) ==
    IF x.m = <<>> THEN 0 ELSE RoundAt(NMul(x.m, NFromInt(10 ^ ndigits)), x.e)

\* Mutant: the ratio is used as it is.
Cap1_none(x) == x

\* min(x, y)
FMin(x, y) == IF FCmp(x, y) = 1 THEN y ELSE x

\* min(1.0, x)
Cap1(x) == FMin(x, FOne)

\* round((movement * 0.6 + vol * 0.4), 4), in units of 10^-4
Score(movement, vol) ==
    round(FAdd(FMul(movement, FRatio(6, 10)), FMul(vol, FRatio(4, 10))), 4)

EmptySummary ==
    [count |-> 0, trend |-> "unknown", anomaly_score |-> 0]

\* The samples are floats with integer values.  avg and volatility are kept
\* as the exact ratios their floats stand for; the score is computed on the
\* floats.
summarize_series(xs) ==
    IF xs = <<>> THEN EmptySummary
    ELSE
    LET mn == MinSeq(xs)
        mx == MaxSeq(xs)
        total == SumSeq(xs)
        latest == xs[Len(xs)]
        first == xs[1]
        delta == mx - mn
        change == latest - first
        trend == IF change > 0 THEN "up" ELSE IF change < 0 THEN "down" ELSE "stable"
        abs_avg == FDiv(FFromInt(Abs(total)), FFromInt(Len(xs)))
        volatility == IF total # 0 THEN FDiv(FFromInt(delta), abs_avg)
                      ELSE FFromInt(delta)
        change_ratio == IF first # 0
                        THEN FDiv(FFromInt(Abs(change)), FFromInt(Abs(first)))
                        ELSE FFromInt(Abs(change))
    IN  [count |-> Len(xs), latest |-> latest, first |-> first,
         min |-> mn, max |-> mx, avg |-> [num |-> total, den |-> Len(xs)],
         delta |-> delta, change |-> change, trend |-> trend,
         volatility |-> IF total # 0
                        THEN [num |-> delta * Len(xs), den |-> Abs(total)]
                        ELSE [num |-> delta, den |-> 1],
         anomaly_score |-> Score(Cap1(change_ratio), Cap1(volatility))]

SeriesInit ==
    /\ MainIdle
    /\ LaterIdle
    /\ zbx = <<>>
    /\ upr = <<>>
    /\ now = [sec |-> Sec(NowSec), frac |-> 0]
    /\ groups = <<>>
    /\ groups_std = <<>>
    /\ cpc = "idle"
    /\ cimpl = "idle"
    /\ cache = <<>>
    /\ ctime = 0
    /\ written = <<>>
    /\ got = NoGot
    /\ cdel = <<>>
    /\ cbegun = EmptyBag
    /\ points \in SeqsUpTo(Samples, MaxPoints)
    /\ summary = NoDoc
    /\ epc = "idle"
    /\ ein = NoDoc
    /\ ehostid = NoDoc
    /\ eclock = NoDoc
    /\ eitems = <<>>
    /\ hist_fetches = 0
    /\ e_fetch = <<>>
    /\ e_sent = <<>>
    /\ eres = NoDoc

Summarize ==
    /\ summary = NoDoc
    /\ summary' = summarize_series(points)
    /\ UNCHANGED points
    /\ UNCHANGED <<laterVars, corrVars, mainVars, cacheVars, enrichVars>>

SpecSeries == SeriesInit /\ [][Summarize]_vars

AllEqual(xs) == \A i \in 1..Len(xs) : xs[i] = xs[1]

\* C8: for every sequence of samples summarize_series returns an
\* anomaly_score in [0, 1]; for every non-empty series of equal samples it
\* returns trend stable, delta 0 and anomaly_score 0.
C8_ScoreInUnitInterval ==
    summary # NoDoc =>
        /\ summary.anomaly_score >= 0
        /\ summary.anomaly_score <= 10000
        /\ (points # <<>> /\ AllEqual(points)) =>
              /\ summary.trend = "stable"
              /\ summary.delta = 0
              /\ summary.anomaly_score = 0

\* A series whose change ratio and volatility both exceed 1 was summarized
\* with the score at its upper end.
C8_Witness ==
    /\ summary # NoDoc
    /\ points = <<1, 3>>
    /\ summary.anomaly_score = 10000

\* A series of three equal non-zero samples was summarized.
C8_WitnessFlat ==
    /\ summary # NoDoc
    /\ points = <<3, 3, 3>>
    /\ summary.anomaly_score = 0

(***************************************************************************)
(* SpecEnrich: rca_multi_agent.zabbix_enrich_from_hostname_eventid step by *)
(* step, and rca_other.zbx_enrich_items                                    *)
(***************************************************************************)
MaxItems == 6

ENRICH_TOP_N_ITEMS == 5
ENRICH_LOOKBACK_MINUTES == 20

\* The epoch second of the enriched event.
EventSec == 1000000 * 1000

\* explicit_window of the input payload
ExplicitWindow == [from |-> EventSec - 1200, till |-> EventSec + 600]

\* Item candidates: value_type 0 (float) and 3 (unsigned) carry numeric
\* history, value_type 4 is text.
ItemKinds ==
    { [name |-> "A", value_type |-> 3, hist |-> <<6, 10>>],
      [name |-> "B", value_type |-> 0, hist |-> <<1, 3>>],
      [name |-> "C", value_type |-> 0, hist |-> <<10, 10>>],
      [name |-> "D", value_type |-> 0, hist |-> <<3, 3, 2>>],
      [name |-> "T", value_type |-> 4, hist |-> <<>>] }

\* What item.get can answer: every list of up to three candidates, and the
\* lists of MaxItems candidates that repeat three of them.
ItemInputs ==
    SeqsUpTo(ItemKinds, 3)
    \cup { [i \in 1..MaxItems |-> p[(i % 3) + 1]] : p \in [1..3 -> ItemKinds] }

\* What event.get can answer for the clock field of the event.
ClockAnswers == { RawDigits(EventSec), RawDigits(0), RawNone }

Numeric(it) == it.value_type \in {0, 3}

TsInt(ts) == ts.q * 1000 + ts.r

\* rows.sort(key=..., reverse=True): stable, greatest key first.
RECURSIVE InsertDesc(_, _, _)
InsertDesc(sorted, row, k) ==
    IF sorted = <<>> THEN <<row>>
    ELSE IF Head(sorted).sortkey >= k THEN <<Head(sorted)>> \o InsertDesc(Tail(sorted), row, k)
    ELSE <<row>> \o sorted

SortDesc(rows) ==
    LET S[i \in 0..Len(rows)] ==
            IF i = 0 THEN <<>>
            ELSE InsertDesc(S[i - 1], rows[i], rows[i].sortkey)
    IN  S[Len(rows)]

Take(xs, n) == SubSeq(xs, 1, IF Len(xs) < n THEN Len(xs) ELSE n)

\* f itself: TLC tabulates a function when it compares it, and so evaluates
\* a constant table once instead of at every application.
Tabulated(f) == IF f = f THEN f ELSE f

\* The histories of the candidates with their summaries, computed once.
Summaries ==
    Tabulated([xs \in { it.hist : it \in ItemKinds } |-> summarize_series(xs)])

\* f[x] where the table f holds x, and the value computed otherwise
Lookup(f, x, computed) == IF x \in DOMAIN f THEN f[x] ELSE computed

\* summarize_series(xs), looked up where xs is the history of a candidate
Summary(xs) == Lookup(Summaries, xs, summarize_series(xs))

\* rows with the row of an item of summary s, no row for an empty history
WithRow(rows, it, s) ==
    IF s.count = 0 THEN rows
    ELSE Append(rows, [name |-> it.name, summary |-> s,
                       sortkey |-> s.anomaly_score])

\* one_item for every candidate: None for text items and empty histories.
MetricRows(items) ==
    LET R[i \in 0..Len(items)] ==
            IF i = 0 THEN <<>>
            ELSE IF ~Numeric(items[i]) THEN R[i - 1]
            ELSE WithRow(R[i - 1], items[i], Summary(items[i].hist))
    IN  R[Len(items)]

\* Mutant: the rows are ranked by raw delta.
RankedRows_delta(items) ==
    LET rows == MetricRows(items)
    IN  SortDesc([i \in 1..Len(rows) |->
                     [rows[i] EXCEPT !.sortkey = rows[i].summary.delta]])

\* metric_rows.sort(key=anomaly_score, reverse=True)
RankedRows(items) == SortDesc(MetricRows(items))

\* the unit of the values that are rounded to four decimals: 1.0 is Unit
Unit == 100 * 100

\* sum(scores) of the floats that the scores in units of 10^-4 stand for,
\* added one after the other
FSum(scores) ==
    LET S[i \in 0..Len(scores)] ==
            IF i = 0 THEN FZero ELSE FAdd(S[i - 1], FRatio(scores[i], Unit))
    IN  S[Len(scores)]

\* round(sum(scores) / len(scores), 4) of a non-empty list of scores
MeanScore(scores) ==
    round(FDiv(FSum(scores), FFromInt(Len(scores))), 4)

\* The scores of the candidates, and the ranked lists of them that the
\* enrichment keeps, with their means computed once.
KnownScores == { Summaries[xs].anomaly_score : xs \in DOMAIN Summaries }
RankedScores ==
    { ss \in UNION { [1..n -> KnownScores] : n \in 1..ENRICH_TOP_N_ITEMS } :
        \A i \in 1..(Len(ss) - 1) : ss[i] >= ss[i + 1] }
MeanScores == Tabulated([ss \in RankedScores |-> MeanScore(ss)])

\* host_anomaly_score: round(sum(scores) / len(scores), 4), 0.0 for no rows
HostScore(rows) ==
    LET scores == [i \in 1..Len(rows) |-> rows[i].summary.anomaly_score]
    IN  IF rows = <<>> THEN 0
        ELSE Lookup(MeanScores, scores, MeanScore(scores))

\* rca_other.zbx_enrich_items: stats per item, ranked by stats.delta
OtherRows(items) ==
    LET R[i \in 0..Len(items)] ==
            IF i = 0 THEN <<>>
            ELSE IF ~Numeric(items[i]) THEN R[i - 1]
            ELSE IF items[i].hist = <<>> THEN R[i - 1]
            ELSE Append(R[i - 1],
                        [name |-> items[i].name,
                         history |-> items[i].hist,
                         stats |-> [count |-> Len(items[i].hist),
                                    min |-> MinSeq(items[i].hist),
                                    max |-> MaxSeq(items[i].hist),
                                    latest |-> items[i].hist[Len(items[i].hist)],
                                    delta |-> MaxSeq(items[i].hist) - MinSeq(items[i].hist)],
                         sortkey |-> MaxSeq(items[i].hist) - MinSeq(items[i].hist)])
    IN  R[Len(items)]

Note(text) == [impl |-> "multi_agent", note |-> text, metrics |-> <<>>]

EnrichInit ==
    /\ MainIdle
    /\ LaterIdle
    /\ zbx = <<>>
    /\ upr = <<>>
    /\ now = [sec |-> Sec(NowSec), frac |-> 0]
    /\ groups = <<>>
    /\ groups_std = <<>>
    /\ cpc = "idle"
    /\ cimpl = "idle"
    /\ cache = <<>>
    /\ ctime = 0
    /\ written = <<>>
    /\ got = NoGot
    /\ cdel = <<>>
    /\ cbegun = EmptyBag
    /\ points = <<>>
    /\ summary = NoDoc
    /\ epc = "start"
    /\ ein \in [creds : BOOLEAN, window : BOOLEAN]
    /\ ehostid = NoDoc
    /\ eclock = [st |-> "unasked", ts |-> NoTs]
    /\ eitems = <<>>
    /\ hist_fetches = 0
    /\ e_fetch = <<>>
    /\ e_sent = <<>>
    /\ eres = NoDoc

\* zabbix_enrich_from_hostname_eventid is called; without hostname, eventid
\* or credentials it returns at once.
EnrichCall ==
    /\ epc = "start"
    /\ IF ein.creds
       THEN /\ epc' = "hostid"
            /\ UNCHANGED eres
       ELSE /\ epc' = "done"
            /\ eres' = Note("missing inputs or zabbix creds")
    /\ UNCHANGED <<ein, ehostid, eclock, eitems, hist_fetches>>
    /\ UNCHANGED <<e_fetch, e_sent>>
    /\ UNCHANGED <<laterVars, corrVars, mainVars, cacheVars, seriesVars>>

\* hostid = await zabbix_hostid_from_hostname(hostname)
HostidReturn(found) ==
    /\ epc = "hostid"
    /\ ehostid' = [kind |-> IF found THEN "hostid" ELSE "None"]
    /\ epc' = "clock"
    /\ UNCHANGED <<ein, eclock, eitems, hist_fetches, eres>>
    /\ UNCHANGED <<e_fetch, e_sent>>
    /\ UNCHANGED <<laterVars, corrVars, mainVars, cacheVars, seriesVars>>

\* The host.get request raises (timeout, HTTP error, invalid JSON).
HostidRaise ==
    /\ epc = "hostid"
    /\ epc' = "raised"
    /\ UNCHANGED <<ein, ehostid, eclock, eitems, hist_fetches, eres>>
    /\ UNCHANGED <<e_fetch, e_sent>>
    /\ UNCHANGED <<laterVars, corrVars, mainVars, cacheVars, seriesVars>>

\* The checks that follow the two lookups, up to the item.get request.
AfterLookups(hostid, clk) ==
    IF hostid.kind = "None"
    THEN /\ epc' = "done"
         /\ eres' = Note("hostid not found")
    ELSE IF ein.window
    THEN /\ epc' = "items"
         /\ eres' = [impl |-> "multi_agent", note |-> "none",
                     event_clock |-> IF NotTs(clk.ts)
                                     THEN (ExplicitWindow.from + ExplicitWindow.till) \div 2
                                     ELSE TsInt(clk.ts),
                     window |-> ExplicitWindow]
    ELSE IF NotTs(clk.ts)
    THEN /\ epc' = "done"
         /\ eres' = Note("event_clock not found")
    ELSE /\ epc' = "items"
         /\ eres' = [impl |-> "multi_agent", note |-> "none",
                     event_clock |-> TsInt(clk.ts),
                     window |-> [from |-> TsInt(clk.ts) - ENRICH_LOOKBACK_MINUTES * 60,
                                 till |-> TsInt(clk.ts) + TIME_WINDOW_SEC]]

\* event_clock = await zabbix_event_clock(eventid): the event is unknown
\* (empty result) or its clock field is parsed.
ClockReturn(known, raw) ==
    /\ epc = "clock"
    /\ eclock' = IF known THEN [st |-> "answered", ts |-> parse_ts(raw)]
                 ELSE [st |-> "absent", ts |-> NoTs]
    /\ AfterLookups(ehostid, eclock')
    /\ UNCHANGED <<ein, ehostid, eitems, hist_fetches>>
    /\ UNCHANGED <<e_fetch, e_sent>>
    /\ UNCHANGED <<laterVars, corrVars, mainVars, cacheVars, seriesVars>>

\* The event.get request raises: nothing in the enrichment catches it.
ClockRaise ==
    /\ epc = "clock"
    /\ eclock' = [st |-> "raised", ts |-> NoTs]
    /\ epc' = "raised"
    /\ UNCHANGED <<ein, ehostid, eitems, hist_fetches, eres>>
    /\ UNCHANGED <<e_fetch, e_sent>>
    /\ UNCHANGED <<laterVars, corrVars, mainVars, cacheVars, seriesVars>>

\* items = await zabbix_item_candidates(hostid)
ItemsReturn ==
    /\ epc = "items"
    /\ eitems' \in ItemInputs
    /\ epc' = "history"
    /\ UNCHANGED <<ein, ehostid, eclock, hist_fetches, eres>>
    /\ UNCHANGED <<e_fetch, e_sent>>
    /\ UNCHANGED <<laterVars, corrVars, mainVars, cacheVars, seriesVars>>

ItemsRaise ==
    /\ epc = "items"
    /\ epc' = "raised"
    /\ UNCHANGED <<ein, ehostid, eclock, eitems, hist_fetches, eres>>
    /\ UNCHANGED <<e_fetch, e_sent>>
    /\ UNCHANGED <<laterVars, corrVars, mainVars, cacheVars, seriesVars>>

\* MAX_CONCURRENCY, the permits of the semaphore of one enrichment
MAX_CONCURRENCY == 6

NumericCount(items) == Cardinality({ i \in 1..Len(items) : Numeric(items[i]) })

\* The numbers of history.get requests that can have been issued when the
\* first of k requests has failed: the tasks beyond the permits wait.
Issued(k) == (IF k < MAX_CONCURRENCY THEN k ELSE MAX_CONCURRENCY)..k

\* All one_item coroutines returned: rank, keep the top, score the host.
HistoryReturn ==
    /\ epc = "history"
    /\ hist_fetches' = NumericCount(eitems)
    /\ LET top_metrics == Take(RankedRows(eitems), ENRICH_TOP_N_ITEMS)
       IN  eres' = [impl |-> "multi_agent", note |-> "none",
                    event_clock |-> eres.event_clock, window |-> eres.window,
                    metrics |-> top_metrics,
                    host_anomaly_score |-> HostScore(top_metrics),
                    anomalies |->
                        SelectSeq(top_metrics,
                                  LAMBDA m : m.summary.anomaly_score >= 3500)]
    /\ epc' = "done"
    /\ UNCHANGED <<ein, ehostid, eclock, eitems>>
    /\ UNCHANGED <<e_fetch, e_sent>>
    /\ UNCHANGED <<laterVars, corrVars, mainVars, cacheVars, seriesVars>>

\* A history.get request of some numeric item raises and gather hands the
\* exception to the caller.  Every one_item task has started by then, each
\* numeric one with its request issued once it holds one of the
\* MAX_CONCURRENCY permits: all of them when there are no more numeric
\* candidates than permits, and otherwise at least a permit's worth.  The
\* other requests stay in flight.
HistoryRaise ==
    /\ epc = "history"
    /\ \E i \in 1..Len(eitems) : Numeric(eitems[i])
    /\ hist_fetches' \in Issued(NumericCount(eitems))
    /\ epc' = "raised"
    /\ UNCHANGED <<ein, ehostid, eclock, eitems, eres>>
    /\ UNCHANGED <<e_fetch, e_sent>>
    /\ UNCHANGED <<laterVars, corrVars, mainVars, cacheVars, seriesVars>>

(***************************************************************************)
(* rca_other.zbx_enrich_items: item.get, then one fetch_item_history task  *)
(* per candidate, every request through zbx_api and its cache.  The tasks  *)
(* of one call have distinct item ids: the task of candidate i asks for    *)
(* item i.                                                                 *)
(***************************************************************************)
\* concurrency.zabbix: the permits of the semaphore of one call
ZBX_CONCURRENCY == 5

\* cache.ttl_zabbix, the ttl of zbx_api
TTL_ZBX_DEFAULT == 120

\* _cache_key("ZBX", {method, params}) of the two requests
ItemGetKey == <<"item.get", 0>>

HistoryGetKey(i) == <<"history.get", i>>

\* What zbx_api caches and returns: res["result"], a list, or the dict
\* {"_error": res} for an answer without "result".  json.loads(json.dumps(v))
\* of a value that resp.json() produced is that value.
ListValue(xs) == [py |-> "list", of |-> xs]

ErrorValue == [py |-> "dict", of |-> <<"_error">>]

\* Iterating {"_error": res} gives its key, a str: item.get, h.get raise
\* AttributeError on it.
ErrorItem == [name |-> "_error", value_type |-> -1, hist |-> <<>>]

\* How a request of zbx_api ends: an answer with "result", an answer
\* without it, or an exception out of _post_json (timeout, HTTP error).
ZbxAnswers == {"result", "error", "raise"}

\* cache_get(key, ttl) on the rows of the table at time t
CacheGet(rows, k, ttl, t) ==
    IF k \notin DOMAIN rows THEN None
    ELSE IF TooOld(rows[k].ts, ttl, t) THEN None
    ELSE rows[k].v

\* cache_set(key, val) at time t: REPLACE INTO cache(k, v, ts)
CacheSet(rows, k, val, t) ==
    [x \in DOMAIN rows \cup {k} |->
        IF x = k THEN [v |-> val, ts |-> t] ELSE rows[x]]

\* The value zbx_api caches for an answer, a result being the list xs
Cached(ans, xs) == IF ans = "result" THEN ListValue(xs) ELSE ErrorValue

\* return {"items": [], "metrics": {}}
NoItems == [impl |-> "rca_other", note |-> "none", metrics |-> <<>>]

\* zbx_enrich_items once item.get has given val: no items end the call,
\* otherwise gather creates one task per element of val.
FetchesStart(val) ==
    IF val = ListValue(<<>>)
    THEN /\ epc' = "done"
         /\ eres' = NoItems
         /\ eitems' = <<>>
         /\ e_fetch' = <<>>
    ELSE /\ epc' = "gather"
         /\ eres' = NoDoc
         /\ eitems' = IF val = ErrorValue THEN <<ErrorItem>> ELSE val.of
         /\ e_fetch' = [i \in 1..Len(eitems') |-> "new"]

\* zbx_enrich_items(hostid, time_window) is called: without a window it
\* returns at once; item.get is answered from the cache or sent.
zbx_enrich_items ==
    /\ epc \in {"start", "again"}
    /\ ein.creds
    /\ hist_fetches' = 0
    /\ IF ~ein.window
       THEN /\ epc' = "done"
            /\ eres' = NoItems
            /\ eitems' = <<>>
            /\ e_fetch' = <<>>
            /\ e_sent' = <<>>
       ELSE IF CacheGet(cache, ItemGetKey, TTL_ZBX_DEFAULT, ctime) # None
       THEN /\ FetchesStart(cache[ItemGetKey].v)
            /\ e_sent' = <<>>
       ELSE /\ epc' = "item.get"
            /\ e_sent' = <<"item.get">>
            /\ e_fetch' = <<>>
            /\ eres' = NoDoc
            /\ UNCHANGED eitems
    /\ UNCHANGED <<ein, ehostid, eclock>>
    /\ UNCHANGED <<laterVars, corrVars, mainVars, cacheVars, seriesVars>>

\* What item.get answers: any list of candidates, and the list it answered
\* before when the host was enriched before.
ItemAnswers ==
    IF eitems # <<>> /\ eitems # <<ErrorItem>> THEN {eitems} ELSE ItemInputs

\* The item.get request ends: an answer is cached and handed on, an
\* exception leaves zbx_api and zbx_enrich_items.
ItemGetAnswer(ans, items) ==
    /\ epc = "item.get"
    /\ IF ans = "raise"
       THEN /\ epc' = "raised"
            /\ UNCHANGED <<cache, eitems, e_fetch, eres>>
       ELSE /\ cache' = CacheSet(cache, ItemGetKey, Cached(ans, items), ctime)
            /\ FetchesStart(Cached(ans, items))
    /\ UNCHANGED <<ein, ehostid, eclock, hist_fetches, e_sent>>
    /\ UNCHANGED <<cimpl, ctime, written, got, cdel, cbegun>>
    /\ UNCHANGED <<laterVars, corrVars, mainVars, seriesVars>>

\* the tasks whose history.get request is in flight: each holds a permit
InFlightFetches == { i \in 1..Len(e_fetch) : e_fetch[i] = "sent" }

\* Where the first step of fetch_item_history takes the task of item it,
\* its history.get being answered from the cache with val (None: no row).
FetchStep(it, val) ==
    IF it = ErrorItem \/ val = ErrorValue THEN "raised"
    ELSE IF ~Numeric(it) \/ val # None THEN "done"
    ELSE "sent"

\* fetch_item_history(item), up to its first await: the tasks take the
\* permits in the order gather created them.  An element that is no dict
\* raises, a text item returns None, a cached history is used as it is, and
\* otherwise the history.get request is sent.  The tasks go on after gather
\* has raised.
fetch_item_history(i) ==
    /\ epc \in {"gather", "raised"}
    /\ i \in 1..Len(e_fetch)
    /\ e_fetch[i] = "new"
    /\ \A j \in 1..(i - 1) : e_fetch[j] # "new"
    /\ Cardinality(InFlightFetches) < ZBX_CONCURRENCY
    /\ e_fetch' =
          [e_fetch EXCEPT
             ![i] = FetchStep(eitems[i],
                              CacheGet(cache, HistoryGetKey(i),
                                       TTL_ZBX_DEFAULT, ctime))]
    /\ hist_fetches' = IF e_fetch'[i] = "sent" THEN hist_fetches + 1
                       ELSE hist_fetches
    /\ e_sent' = IF e_fetch'[i] = "sent" THEN Append(e_sent, "history.get")
                 ELSE e_sent
    /\ UNCHANGED <<epc, ein, ehostid, eclock, eitems, eres>>
    /\ UNCHANGED <<laterVars, corrVars, mainVars, cacheVars, seriesVars>>

\* The history.get request of task i ends: a result is cached and the task
\* returns its row or None; an answer without "result" is cached and the
\* loop over it raises; an exception of the request leaves the task.
HistoryGetAnswer(i, ans) ==
    /\ epc \in {"gather", "raised"}
    /\ i \in InFlightFetches
    /\ e_fetch' = [e_fetch EXCEPT ![i] = IF ans = "result" THEN "done"
                                         ELSE "raised"]
    /\ cache' = IF ans = "raise" THEN cache
                ELSE CacheSet(cache, HistoryGetKey(i),
                              Cached(ans, eitems[i].hist), ctime)
    /\ UNCHANGED <<epc, ein, ehostid, eclock, eitems, hist_fetches, e_sent,
                   eres>>
    /\ UNCHANGED <<cimpl, ctime, written, got, cdel, cbegun>>
    /\ UNCHANGED <<laterVars, corrVars, mainVars, seriesVars>>

\* gather(..., return_exceptions=False): the exception of a task leaves
\* zbx_enrich_items; the other tasks are not cancelled.
FetchesRaise ==
    /\ epc = "gather"
    /\ \E i \in 1..Len(e_fetch) : e_fetch[i] = "raised"
    /\ epc' = "raised"
    /\ UNCHANGED <<ein, ehostid, eclock, eitems, hist_fetches, e_fetch,
                   e_sent, eres>>
    /\ UNCHANGED <<laterVars, corrVars, mainVars, cacheVars, seriesVars>>

\* Every task returned: the rows are sorted by stats.delta.
FetchesReturn ==
    /\ epc = "gather"
    /\ \A i \in 1..Len(e_fetch) : e_fetch[i] = "done"
    /\ eres' = [impl |-> "rca_other", note |-> "none",
                metrics |-> SortDesc(OtherRows(eitems))]
    /\ epc' = "done"
    /\ UNCHANGED <<ein, ehostid, eclock, eitems, hist_fetches, e_fetch,
                   e_sent>>
    /\ UNCHANGED <<laterVars, corrVars, mainVars, cacheVars, seriesVars>>

\* The host is enriched once more, ttl seconds after the rows of the first
\* call were written or a second later: the first call has returned its
\* metrics, or has raised on an item.get answer that it cached.
EnrichAgain(dt) ==
    /\ \/ epc = "done" /\ e_sent # <<>> /\ eitems # <<>>
       \/ epc = "raised" /\ eitems = <<ErrorItem>> /\ e_fetch = <<"raised">>
    /\ ctime + dt <= TTL_ZBX_DEFAULT + 1
    /\ ctime' = ctime + dt
    /\ epc' = "again"
    /\ UNCHANGED <<ein, ehostid, eclock, eitems, hist_fetches, e_fetch,
                   e_sent, eres>>
    /\ UNCHANGED <<cimpl, cache, written, got, cdel, cbegun>>
    /\ UNCHANGED <<laterVars, corrVars, mainVars, seriesVars>>

EnrichNext ==
    \/ EnrichCall
    \/ \E found \in BOOLEAN : HostidReturn(found)
    \/ HostidRaise
    \/ \E known \in BOOLEAN, raw \in ClockAnswers : ClockReturn(known, raw)
    \/ ClockRaise
    \/ ItemsReturn
    \/ ItemsRaise
    \/ HistoryReturn
    \/ HistoryRaise
    \/ zbx_enrich_items
    \/ \E ans \in ZbxAnswers, items \in ItemAnswers :
          ItemGetAnswer(ans, items)
    \/ \E i \in 1..MaxItems : fetch_item_history(i)
    \/ \E i \in 1..MaxItems, ans \in ZbxAnswers : HistoryGetAnswer(i, ans)
    \/ FetchesRaise
    \/ FetchesReturn
    \/ \E dt \in {TTL_ZBX_DEFAULT, TTL_ZBX_DEFAULT + 1} : EnrichAgain(dt)

SpecEnrich == EnrichInit /\ [][EnrichNext]_vars

\* The anomaly score of a kept row of either implementation.
RowScore(m) ==
    IF eres.impl = "multi_agent" THEN m.summary.anomaly_score
    ELSE Summary(m.history).anomaly_score

\* The candidates that had samples.
WithSamples == { i \in 1..Len(eitems) : Numeric(eitems[i]) /\ eitems[i].hist # <<>> }

HasMetrics == epc = "done" /\ eres # NoDoc /\ eres.note = "none"

\* C9: the metrics list holds at most N entries, is ordered by anomaly_score
\* descending, no candidate with samples that was left out scores higher
\* than a kept one, and host_anomaly_score is the mean of the kept scores
\* (to the four decimals the scores carry), 0 when none is kept.
C9_RankedByAnomalyScore ==
    HasMetrics =>
        /\ eres.impl = "multi_agent" => Len(eres.metrics) <= ENRICH_TOP_N_ITEMS
        /\ \A i \in 1..Len(eres.metrics) : \A j \in i..Len(eres.metrics) :
              RowScore(eres.metrics[i]) >= RowScore(eres.metrics[j])
        /\ \A c \in WithSamples : \A i \in 1..Len(eres.metrics) :
              \/ \E j \in 1..Len(eres.metrics) : eres.metrics[j].name = eitems[c].name
              \/ Summary(eitems[c].hist).anomaly_score <= RowScore(eres.metrics[i])
        /\ eres.impl = "multi_agent" =>
              eres.host_anomaly_score =
                  (IF eres.metrics = <<>> THEN 0
                   ELSE RoundHalfEven(
                            SumSeq([i \in 1..Len(eres.metrics) |-> RowScore(eres.metrics[i])]),
                            Len(eres.metrics)))

\* The same statement for zabbix_enrich_from_hostname_eventid alone.
MultiAgentRanked ==
    (HasMetrics /\ eres.impl = "multi_agent") => C9_RankedByAnomalyScore

\* C10: with no explicit window and no resolvable event clock (absent at the
\* source, or its lookup failed) the enrichment returns empty metrics with a
\* note, fetches no history and does not raise.
C10_FailSoft ==
    /\ (~ein.window /\ eclock.st \in {"absent", "raised"}) =>
          /\ epc = "done"
          /\ eres.metrics = <<>>
          /\ eres.note # "none"
          /\ hist_fetches = 0
    /\ (~ein.window /\ eclock.st = "answered" /\ NotTs(eclock.ts)) =>
          /\ epc = "done"
          /\ eres.metrics = <<>>
          /\ eres.note # "none"
          /\ hist_fetches = 0

(***************************************************************************)
(* Confidence calibration, guardrail and delivery: the tail of             *)
(* rca_multi_agent.main (SpecGuard)                                        *)
(*                                                                         *)
(* Confidences and scores are in units of 1/10000, the precision the code  *)
(* rounds them to.  Texts are sequences of one-character strings.          *)
(***************************************************************************)
MaxGroups == 2

\* A key the document does not have.
Absent == [k |-> "absent", v |-> 0]

\* A number.
Num(n) == [k |-> "num", v |-> n]

\* A value float() rejects, such as the string "high".
NonNumeric == [k |-> "text", v |-> 0]

\* A text value, a list value and a bare string where a list is expected.
Str(cs) == [k |-> "str", chars |-> cs]

NoText == [k |-> "absent", chars |-> <<>>]

List(xs) == [k |-> "list", items |-> xs]

Bare(x) == [k |-> "str", items |-> <<x>>]

NoList == [k |-> "absent", items |-> <<>>]

\* Mutant: the default is ignored.
_safe_float_zero(v, default) == IF v.k = "num" THEN v.v ELSE 0

\* float(v), the default when float() raises
_safe_float(v, default) == IF v.k = "num" THEN v.v ELSE default

\* Mutant: the upper end is not enforced.
Clamp01_floor(x) == IF x < 0 THEN 0 ELSE x

\* max(0.0, min(1.0, x)) of a value in units: the float of v units is below
\* 0.0 or above 1.0 exactly when v is below 0 or above Unit
Clamp01(x) == IF x < 0 THEN 0 ELSE IF x > Unit THEN Unit ELSE x

\* max(..., default=0.0) over the host anomaly scores of the enrichments
RECURSIVE MaxAnomaly(_)
MaxAnomaly(es) ==
    IF es = <<>> THEN 0
    ELSE LET h == _safe_float(Head(es).host_anomaly_score, 0)
             t == MaxAnomaly(Tail(es))
         IN  IF Len(es) = 1 THEN h ELSE IF h > t THEN h ELSE t

\* the number of groups with a non-empty matched_uptime
MatchedGroups(gs) == Cardinality({ i \in 1..Len(gs) : gs[i].matched_uptime # <<>> })

\* the number of completeness signals that are present
Signals(d, gs, es) ==
      (IF gs # <<>> THEN 1 ELSE 0)
    + (IF es # <<>> THEN 1 ELSE 0)
    + (IF d.evidence # <<>> THEN 1 ELSE 0)
    + (IF d.root_cause.k = "str" /\ d.root_cause.chars # <<>> THEN 1 ELSE 0)
    + (IF d.itsm_5w1h # "absent" THEN 1 ELSE 0)

\* The weights of the sum, 0.4, 0.25, 0.2 and 0.15, in hundredths.
Weights == <<40, 25, 20, 15>>

\* values each input of the weighted sum is raised to
Grid == {0, 2000, Unit \div 2, 6000, Unit}

\* One input of the sum, the float of p / q: what is reported of it,
\* round(x, 4), and its term of the sum, x * w for the i-th weight w.
Term(x, w) == [rounded |-> round(x, 4), term |-> FMul(x, w)]

Input(p, q, i) == Term(FRatio(p, q), FRatio(Weights[i], 100))

\* The inputs of the runs, computed once: confidences and anomalies of the
\* grid, m of n groups, k of the five signals.
Inputs ==
    Tabulated([e \in (Grid \X {Unit} \X {1, 2})
                     \cup ((0..MaxGroups) \X (1..MaxGroups) \X {3})
                     \cup ((0..5) \X {5} \X {4})
                 |-> Input(e[1], e[2], e[3])])

InputOf(p, q, i) == Lookup(Inputs, <<p, q, i>>, Input(p, q, i))

\* calibrated = (llm_conf * 0.4) + (anomaly * 0.25) + (corr_density * 0.2)
\* + (completeness * 0.15), then max(0.0, min(1.0, calibrated)) and
\* round(calibrated, 4); for llm_conf and anomaly in units, m of n groups
\* matched (matched / max(1, len(groups))) and k of the five signals present.
\* No term is negative, so the sum is not below 0.0.
Calibrated(llm_conf, anomaly, m, n, k) ==
    round(Cap1(FAdd(FAdd(FAdd(InputOf(llm_conf, Unit, 1).term,
                              InputOf(anomaly, Unit, 2).term),
                         InputOf(m, Max2(1, n), 3).term),
                    InputOf(k, 5, 4).term)), 4)

\* m matched groups of n
GroupCounts ==
    { c \in (0..MaxGroups) \X (0..MaxGroups) : c[1] <= c[2] }

\* The sums of the runs, computed once.
WeightedSums ==
    Tabulated([e \in Grid \X Grid \X GroupCounts \X (0..5)
                 |-> Calibrated(e[1], e[2], e[3][1], e[3][2], e[4])])

WeightedSum(llm_conf, anomaly, m, n, k) ==
    Lookup(WeightedSums, <<llm_conf, anomaly, <<m, n>>, k>>,
           Calibrated(llm_conf, anomaly, m, n, k))

calibrate_confidence(d, gs, es) ==
    LET llm_conf == Clamp01(_safe_float(d.confidence, Unit \div 2))
        anomaly == IF es # <<>> THEN Clamp01(MaxAnomaly(es)) ELSE 0
        matched == MatchedGroups(gs)
        k == Signals(d, gs, es)
    IN  [llm_conf |-> InputOf(llm_conf, Unit, 1).rounded,
         anomaly |-> InputOf(anomaly, Unit, 2).rounded,
         corr_density |-> InputOf(matched, Max2(1, Len(gs)), 3).rounded,
         completeness |-> InputOf(k, 5, 4).rounded,
         calibrated |-> WeightedSum(llm_conf, anomaly, matched, Len(gs), k)]

\* The letters str.lower() changes and what it makes of them; the texts
\* are ASCII.
UpperCase ==
    <<"A", "B", "C", "D", "E", "F", "G", "H", "I", "J", "K", "L", "M",
      "N", "O", "P", "Q", "R", "S", "T", "U", "V", "W", "X", "Y", "Z">>

LowerCase ==
    <<"a", "b", "c", "d", "e", "f", "g", "h", "i", "j", "k", "l", "m",
      "n", "o", "p", "q", "r", "s", "t", "u", "v", "w", "x", "y", "z">>

\* str.lower() of one character: an upper-case letter becomes its
\* lower-case letter, every other character is kept
Lower(c) ==
    IF \E i \in 1..Len(UpperCase) : UpperCase[i] = c
    THEN LowerCase[CHOOSE i \in 1..Len(UpperCase) : UpperCase[i] = c]
    ELSE c

\* str.lower()
LowerText(cs) == [i \in 1..Len(cs) |-> Lower(cs[i])]

StartsWith(cs, prefix) ==
    /\ Len(prefix) <= Len(cs)
    /\ SubSeq(cs, 1, Len(prefix)) = prefix

LikelyPrefix == <<"L", "i", "k", "e", "l", "y", ":", " ">>

DefaultRootCause ==
    <<"I", "n", "s", "u", "f", "f", "i", "c", "i", "e", "n", "t", " ",
      "e", "v", "i", "d", "e", "n", "c", "e", " ", "f", "o", "r", " ",
      "d", "e", "f", "i", "n", "i", "t", "i", "v", "e", " ",
      "r", "o", "o", "t", " ", "c", "a", "u", "s", "e">>

needed ==
    <<"Additional host metrics around incident window",
      "Application/service logs correlated with alert time",
      "Verification from on-call/operator confirmation">>

extra == "Collect missing data above before final root-cause closure."

\* Mutant: every item is appended, present or not.
RECURSIVE AppendAbsent_always(_, _)
AppendAbsent_always(xs, ns) ==
    IF ns = <<>> THEN xs
    ELSE AppendAbsent_always(Append(xs, Head(ns)), Tail(ns))

\* for n in ns: if n not in xs: xs.append(n)
RECURSIVE AppendAbsent(_, _)
AppendAbsent(xs, ns) ==
    IF ns = <<>> THEN xs
    ELSE AppendAbsent(IF InSeq(Head(ns), xs) THEN xs
                      ELSE Append(xs, Head(ns)), Tail(ns))

\* Mutant: both conditions are required.
guardrail_on_both(m) == m.calibrated < 4500 /\ m.completeness < 3500

\* calibrated < 0.45 or completeness < 0.35
guardrail_on(m) == m.calibrated < 4500 \/ m.completeness < 3500

\* str(out.get("root_cause") or "Insufficient evidence ...")
RootCauseOrDefault(d) ==
    IF d.root_cause.k = "str" /\ d.root_cause.chars # <<>>
    THEN d.root_cause.chars ELSE DefaultRootCause

GuardedRootCause(d) ==
    LET rc == RootCauseOrDefault(d)
    IN  IF ~StartsWith(LowerText(rc), <<"l", "i", "k", "e", "l", "y">>)
        THEN Str(LikelyPrefix \o rc)
        ELSE d.root_cause

GuardedMissing(d) ==
    List(AppendAbsent(IF d.missing_data.k = "list"
                      THEN d.missing_data.items ELSE <<>>, needed))

GuardedImmediate(d) ==
    LET ia == d.immediate_actions
        immediate == IF ia.k = "list" THEN ia.items
                     ELSE IF ia.k = "str" /\ ia.items # <<"">> THEN ia.items
                     ELSE <<>>
    IN  List(AppendAbsent(immediate, <<extra>>))

\* The dict apply_guardrail returns: out = dict(decision) with the confidence
\* fields and guardrail_mode set and, when the guardrail is on, the three
\* guarded fields.
GuardrailOut(d, m, on) ==
    [kind |-> d.kind,
     confidence |-> Num(m.calibrated),
     confidence_raw |-> Num(m.llm_conf),
     confidence_calibrated |-> Num(m.calibrated),
     guardrail_mode |-> IF on THEN "true" ELSE "false",
     evidence |-> d.evidence,
     itsm_5w1h |-> d.itsm_5w1h,
     root_cause |-> IF on THEN GuardedRootCause(d) ELSE d.root_cause,
     missing_data |-> IF on THEN GuardedMissing(d) ELSE d.missing_data,
     immediate_actions |-> IF on THEN GuardedImmediate(d)
                           ELSE d.immediate_actions,
     kb_match_score |-> d.kb_match_score]

\* dict(decision) is a shallow copy: a missing_data or immediate_actions
\* that is a list is one list object held by the argument and by the copy,
\* and missing.append / immediate.append extend it in both.  The argument
\* d as it is once the holder of the same lists is out; its other fields
\* are assigned in the copy only.
SharedLists(d, out) ==
    [d EXCEPT !.missing_data = IF @.k = "list" THEN out.missing_data ELSE @,
              !.immediate_actions = IF @.k = "list" THEN out.immediate_actions
                                    ELSE @]

\* apply_guardrail(decision, conf_meta): out is the dict it returns,
\* decision its argument as the call leaves it.
apply_guardrail(d, m) ==
    [out |-> GuardrailOut(d, m, guardrail_on(m)),
     decision |-> SharedLists(d, GuardrailOut(d, m, guardrail_on(m)))]

\* render_report: the fields of the report that come from the Decision
render_report(d, done) ==
    [root_cause |-> IF d.root_cause.k = "str" THEN d.root_cause.chars
                    ELSE <<"N", "/", "A">>,
     confidence_calibrated |-> d.confidence_calibrated,
     confidence_raw |-> d.confidence_raw,
     guardrail_mode |-> d.guardrail_mode = "true",
     kb_match_score |-> d.kb_match_score,
     sdp_done |-> done = "yes"]

\* ---- inputs ----
\* itsm_5w1h is "absent" (missing, null or empty), "object" (a JSON object
\* with members) or "text" (any other value that is true, such as a string).
StageDoc(c, ev, rc, it, md, ia) ==
    [kind |-> "object", confidence |-> c, confidence_raw |-> Absent,
     confidence_calibrated |-> Absent, guardrail_mode |-> "absent",
     evidence |-> ev, itsm_5w1h |-> it, root_cause |-> rc,
     missing_data |-> md, immediate_actions |-> ia,
     kb_match_score |-> Absent]

\* a decision-stage output that is not a JSON object
NonObjectDoc ==
    [StageDoc(Absent, <<>>, NoText, "absent", NoList, NoList)
        EXCEPT !.kind = "nonobject"]

Confidences ==
    { Absent, NonNumeric, Num(2000), Num(Unit), Num(17000), Num(-3000) }

RootCauses ==
    { NoText,
      Str(<<"D", "i", "s", "k", " ", "f", "u", "l", "l">>),
      Str(LikelyPrefix \o <<"d", "i", "s", "k">>),
      Str(<<"l", "i", "k", "e", "l", "y", " ", "d", "i", "s", "k">>),
      Str(<<"L", "I", "K", "E", "L", "Y", " ", "d", "i", "s", "k">>) }

EvidenceForms ==
    { [evidence |-> <<>>, itsm |-> "absent"],
      [evidence |-> <<"cpu 98%">>, itsm |-> "absent"],
      [evidence |-> <<"cpu 98%">>, itsm |-> "object"],
      [evidence |-> <<"cpu 98%">>, itsm |-> "text"] }

ListForms ==
    { [md |-> NoList, ia |-> NoList],
      [md |-> List(<<needed[2], "Packet capture">>),
       ia |-> List(<<"Restart nginx">>)],
      [md |-> Bare("need logs"), ia |-> Bare("Restart nginx")],
      [md |-> List(needed), ia |-> List(<<extra>>)],
      [md |-> List(<<needed[1], "need logs", needed[1]>>), ia |-> NoList] }

DecisionOutputs ==
    { StageDoc(c, f.evidence, rc, f.itsm, l.md, l.ia) :
        c \in Confidences, f \in EvidenceForms, rc \in RootCauses,
        l \in ListForms }
    \cup { NonObjectDoc }

GroupInputs ==
    SeqsUpTo({ [matched_uptime |-> <<>>], [matched_uptime |-> <<"down">>] },
             MaxGroups)

EnrichmentInputs ==
    LET E(x) == [note |-> "none", host_anomaly_score |-> x]
    IN  { <<>>,
          <<[note |-> "no hostid", host_anomaly_score |-> Absent]>>,
          <<E(Num(6000))>>,
          <<E(Num(0)), E(Num(Unit))>>,
          <<[note |-> "no hostid", host_anomaly_score |-> Absent],
            E(Num(6000))>> }

\* what the knowledge-base match of the run gives: no entries, or a match
KbScores == {0, 6000}

GuardInit ==
    /\ MainIdle
    /\ zbx = <<>>
    /\ upr = <<>>
    /\ now = [sec |-> Sec(NowSec), frac |-> 0]
    /\ groups = <<>>
    /\ groups_std = <<>>
    /\ cpc = "idle"
    /\ cimpl = "idle"
    /\ cache = <<>>
    /\ ctime = 0
    /\ written = <<>>
    /\ got = NoGot
    /\ cdel = <<>>
    /\ cbegun = EmptyBag
    /\ points = <<>>
    /\ summary = NoDoc
    /\ epc = "idle"
    /\ ein = NoDoc
    /\ ehostid = NoDoc
    /\ eclock = NoDoc
    /\ eitems = <<>>
    /\ hist_fetches = 0
    /\ e_fetch = <<>>
    /\ e_sent = <<>>
    /\ eres = NoDoc
    /\ KbIdle
    /\ TsIdle
    /\ ConcIdle
    /\ gpc = "calibrate"
    /\ g_decision_raw \in DecisionOutputs
    /\ g_supplied = g_decision_raw
    /\ g_groups \in GroupInputs
    /\ g_enrichments \in EnrichmentInputs
    /\ conf_meta = NoDoc
    /\ g_decision = NoDoc
    /\ reapplied = NoDoc
    /\ sdp_done = "unset"
    /\ report = NoDoc

GuardRest == <<corrVars, mainVars, cacheVars, seriesVars, enrichVars,
               kbVars, tsVars, concVars>>

\* conf_meta = calibrate_confidence(decision_raw, groups, enrichments)
CalibrateReturn ==
    /\ gpc = "calibrate"
    /\ g_decision_raw.kind = "object"
    /\ conf_meta' = calibrate_confidence(g_decision_raw, g_groups,
                                         g_enrichments)
    /\ gpc' = "guardrail"
    /\ UNCHANGED <<g_decision_raw, g_supplied, g_groups, g_enrichments,
                   g_decision, reapplied, sdp_done, report>>
    /\ UNCHANGED GuardRest

\* decision.get on an output that is not an object: main() ends with the
\* exception.
CalibrateRaise ==
    /\ gpc = "calibrate"
    /\ g_decision_raw.kind # "object"
    /\ gpc' = "raised"
    /\ UNCHANGED <<g_decision_raw, g_supplied, g_groups, g_enrichments,
                   conf_meta, g_decision, reapplied, sdp_done, report>>
    /\ UNCHANGED GuardRest

\* decision = apply_guardrail(decision_raw, conf_meta): decision is the
\* returned dict, and decision_raw holds the lists the call extended.
GuardrailStep ==
    /\ gpc = "guardrail"
    /\ g_decision' = apply_guardrail(g_decision_raw, conf_meta).out
    /\ g_decision_raw' = apply_guardrail(g_decision_raw, conf_meta).decision
    /\ gpc' = "kb"
    /\ UNCHANGED <<g_supplied, g_groups, g_enrichments, conf_meta,
                   reapplied, sdp_done, report>>
    /\ UNCHANGED GuardRest

\* apply_guardrail applied once more to its own result, with the same
\* conf_meta.  Its argument is the Decision, whose lists are those of
\* decision_raw where decision_raw held lists.
Reapply ==
    /\ gpc = "kb"
    /\ reapplied' = apply_guardrail(g_decision, conf_meta).out
    /\ g_decision' = apply_guardrail(g_decision, conf_meta).decision
    /\ g_decision_raw' =
          SharedLists(g_decision_raw,
                      apply_guardrail(g_decision, conf_meta).decision)
    /\ gpc' = "reapplied"
    /\ UNCHANGED <<g_supplied, g_groups, g_enrichments, conf_meta,
                   sdp_done, report>>
    /\ UNCHANGED GuardRest

\* solution_text = build_itsm_5w1h_markdown(decision), which reads the
\* members of itsm_5w1h with w.get; then
\* decision["kb_match_score"] = kb_match.get("score")
KbMatchStep(score) ==
    /\ gpc = "kb"
    /\ g_decision.itsm_5w1h # "text"
    /\ g_decision' = [g_decision EXCEPT !.kb_match_score = Num(score)]
    /\ gpc' = "sdp"
    /\ UNCHANGED <<g_decision_raw, g_supplied, g_groups, g_enrichments,
                   conf_meta, reapplied, sdp_done, report>>
    /\ UNCHANGED GuardRest

\* w = decision.get("itsm_5w1h") or {} is a value that is true and has no
\* get: w.get('who') raises and main() ends with the exception, nothing
\* delivered.
KbMatchRaise ==
    /\ gpc = "kb"
    /\ g_decision.itsm_5w1h = "text"
    /\ gpc' = "raised"
    /\ UNCHANGED <<g_decision_raw, g_supplied, g_groups, g_enrichments,
                   conf_meta, g_decision, reapplied, sdp_done, report>>
    /\ UNCHANGED GuardRest

\* run_sdp_flow returns: None when the ticket flow is not configured
SdpReturn(done) ==
    /\ gpc = "sdp"
    /\ sdp_done' = done
    /\ gpc' = "render"
    /\ UNCHANGED <<g_decision_raw, g_supplied, g_groups, g_enrichments,
                   conf_meta, g_decision, reapplied, report>>
    /\ UNCHANGED GuardRest

\* a ticket request fails
SdpRaise ==
    /\ gpc = "sdp"
    /\ gpc' = "raised"
    /\ UNCHANGED <<g_decision_raw, g_supplied, g_groups, g_enrichments,
                   conf_meta, g_decision, reapplied, sdp_done, report>>
    /\ UNCHANGED GuardRest

\* report = render_report(decision, ...); await send_teams(report)
RenderAndSend ==
    /\ gpc = "render"
    /\ report' = render_report(g_decision, sdp_done)
    /\ gpc' = "done"
    /\ UNCHANGED <<g_decision_raw, g_supplied, g_groups, g_enrichments,
                   conf_meta, g_decision, reapplied, sdp_done>>
    /\ UNCHANGED GuardRest

\* the report is rendered and the post to the webhook fails
SendRaise ==
    /\ gpc = "render"
    /\ report' = render_report(g_decision, sdp_done)
    /\ gpc' = "raised"
    /\ UNCHANGED <<g_decision_raw, g_supplied, g_groups, g_enrichments,
                   conf_meta, g_decision, reapplied, sdp_done>>
    /\ UNCHANGED GuardRest

GuardNext ==
    \/ CalibrateReturn
    \/ CalibrateRaise
    \/ GuardrailStep
    \/ Reapply
    \/ \E score \in KbScores : KbMatchStep(score)
    \/ KbMatchRaise
    \/ \E done \in {"yes", "no"} : SdpReturn(done)
    \/ SdpRaise
    \/ RenderAndSend
    \/ SendRaise

SpecGuard == GuardInit /\ [][GuardNext]_vars

\* ---- claims on calibration and guardrail ----
InUnit(x) == 0 <= x /\ x <= Unit

\* C11: for every decision-stage output, group list and enrichment list,
\* each of llm_conf, anomaly, corr_density and completeness returned by
\* calibrate_confidence is in [0,1]; calibrated is the weighted sum
\* 0.40*llm_conf + 0.25*anomaly + 0.20*corr_density + 0.15*completeness,
\* clamped to [0,1] (at the four decimals the code reports), is in [0,1], and
\* does not decrease when one input is raised and the other three are kept.
C11_CalibratedWeightedSum ==
    conf_meta # NoDoc =>
        LET l == conf_meta.llm_conf
            a == conf_meta.anomaly
            k == conf_meta.completeness \div 2000
            cal == conf_meta.calibrated
            n == IF g_groups = <<>> THEN 1 ELSE Len(g_groups)
            m == Cardinality({ i \in 1..Len(g_groups) :
                                 g_groups[i].matched_uptime # <<>> })
            sum == 8 * n * l + 5 * n * a + 40000 * m + 6000 * k * n
        IN  /\ InUnit(l) /\ InUnit(a)
            /\ InUnit(conf_meta.corr_density)
            /\ InUnit(conf_meta.completeness)
            /\ InUnit(cal)
            /\ conf_meta.completeness = 2000 * k
            /\ 2 * Abs(20 * n * cal - sum) <= 20 * n
            /\ \A l2 \in Grid : l2 >= l => WeightedSum(l2, a, m, n, k) >= cal
            /\ \A a2 \in Grid : a2 >= a => WeightedSum(l, a2, m, n, k) >= cal
            /\ \A n2 \in 1..MaxGroups : \A m2 \in 0..n2 :
                   m2 * n >= m * n2 => WeightedSum(l, a, m2, n2, k) >= cal
            /\ \A k2 \in k..5 : WeightedSum(l, a, m, n, k2) >= cal

\* A reported confidence of 1.7 is clamped to 1.0 and enters the sum with an
\* anomaly of 0.6 and one matched group of two.
C11_Witness ==
    /\ conf_meta # NoDoc
    /\ g_supplied.confidence = Num(17000)
    /\ conf_meta.llm_conf = Unit
    /\ conf_meta.anomaly = 6000
    /\ conf_meta.corr_density = Unit \div 2
    /\ conf_meta.completeness = Unit
    /\ conf_meta.calibrated = 4000 + 1500 + 1000 + 1500

\* C12: apply_guardrail sets guardrail_mode to true if and only if
\* calibrated < 0.45 or completeness < 0.35; when it is false, root_cause,
\* missing_data and immediate_actions of the Decision are exactly those of
\* the decision-stage output.
C12_GuardrailTrigger ==
    g_decision # NoDoc =>
        /\ g_decision.guardrail_mode \in {"true", "false"}
        /\ g_decision.guardrail_mode = "true"
             <=> (conf_meta.calibrated < 4500 \/ conf_meta.completeness < 3500)
        /\ g_decision.guardrail_mode = "false" =>
             /\ g_decision.root_cause = g_supplied.root_cause
             /\ g_decision.missing_data = g_supplied.missing_data
             /\ g_decision.immediate_actions = g_supplied.immediate_actions

\* The guardrail is engaged by the completeness alone: calibrated is 0.63.
C12_Witness ==
    /\ g_decision # NoDoc
    /\ conf_meta.calibrated = 6300
    /\ conf_meta.completeness = 2000
    /\ g_decision.guardrail_mode = "true"

\* The guardrail is off and the three fields are handed on as they came.
C12_WitnessOff ==
    /\ g_decision # NoDoc
    /\ g_decision.guardrail_mode = "false"
    /\ g_supplied.missing_data = Bare("need logs")
    /\ g_decision.missing_data = Bare("need logs")
    /\ g_decision.root_cause.k = "str"
    /\ ~StartsWith(g_decision.root_cause.chars, LikelyPrefix)

HasLikelyPrefix(cs) == StartsWith(cs, <<"L", "i", "k", "e", "l", "y", ":">>)

\* C13: whenever guardrail_mode is true, the Decision's root_cause begins
\* with the prefix "Likely:", the three standard missing-data items are in
\* missing_data and the standard collect item is in immediate_actions; the
\* prefix stays in place through the knowledge-base match, the ticket update
\* and the rendered report.
C13_GuardedRootCausePrefixed ==
    (g_decision # NoDoc /\ g_decision.guardrail_mode = "true") =>
        /\ g_decision.root_cause.k = "str"
        /\ HasLikelyPrefix(g_decision.root_cause.chars)
        /\ g_decision.missing_data.k = "list"
        /\ \A i \in 1..Len(needed) :
               InSeq(needed[i], g_decision.missing_data.items)
        /\ g_decision.immediate_actions.k = "list"
        /\ InSeq(extra, g_decision.immediate_actions.items)
        /\ report # NoDoc => HasLikelyPrefix(report.root_cause)

\* What does hold: a guarded root cause begins with "likely" in some
\* letter case, and the later steps leave the guarded fields alone.
GuardedFieldsKept ==
    (g_decision # NoDoc /\ g_decision.guardrail_mode = "true") =>
        /\ g_decision.root_cause.k = "str"
        /\ StartsWith(LowerText(g_decision.root_cause.chars),
                      <<"l", "i", "k", "e", "l", "y">>)
        /\ \A i \in 1..Len(needed) :
               InSeq(needed[i], g_decision.missing_data.items)
        /\ InSeq(extra, g_decision.immediate_actions.items)
        /\ g_decision.root_cause
             = apply_guardrail(g_supplied, conf_meta).out.root_cause
        /\ report # NoDoc => report.root_cause = g_decision.root_cause.chars

\* C14: the guardrail is idempotent: apply_guardrail applied to its own
\* result with the same metrics returns that result field for field (no
\* second prefix, no repeated missing-data or immediate-action item).
C14_GuardrailIdempotent ==
    [][gpc = "kb" /\ gpc' = "reapplied"
         => reapplied' = g_decision /\ g_decision' = g_decision]_vars

\* A root cause that begins with "likely" in upper case is left as it is,
\* by the first application and by the second.
UpperCaseLikelyKept ==
    /\ reapplied # NoDoc
    /\ g_decision.guardrail_mode = "true"
    /\ g_supplied.root_cause
         = Str(<<"L", "I", "K", "E", "L", "Y", " ", "d", "i", "s", "k">>)
    /\ g_decision.root_cause = g_supplied.root_cause
    /\ reapplied.root_cause = g_supplied.root_cause

\* The guardrail engaged on a plain root cause and a partly filled
\* missing_data list, and was applied a second time.
C14_Witness ==
    /\ reapplied # NoDoc
    /\ g_decision.guardrail_mode = "true"
    /\ g_supplied.root_cause
         = Str(<<"D", "i", "s", "k", " ", "f", "u", "l", "l">>)
    /\ reapplied.root_cause
         = Str(LikelyPrefix \o <<"D", "i", "s", "k", " ", "f", "u", "l", "l">>)
    /\ reapplied.missing_data
         = List(<<needed[2], "Packet capture", needed[1], needed[3]>>)
    /\ reapplied.immediate_actions = List(<<"Restart nginx", extra>>)

\* the Decision has been handed to the delivery steps
HandedToDelivery == gpc \in {"sdp", "render", "done"} /\ g_decision # NoDoc

\* C15 as stated: in every Decision handed to delivery, whether or not the
\* guardrail triggered, confidence equals the calibrated value and
\* confidence_raw holds the value the decision stage reported.
C15_RawIsReportedValue ==
    HandedToDelivery =>
        /\ g_decision.confidence = Num(conf_meta.calibrated)
        /\ g_decision.confidence_raw = g_supplied.confidence

\* C15, amended: in every Decision handed to delivery, whether or not the
\* guardrail triggered, confidence equals the calibrated value, and
\* confidence_raw holds the confidence the decision stage reported when that
\* is a number in [0,1], the nearer end of [0,1] when it is a number outside,
\* and 0.5 when the stage reported none or one that is not a number; the
\* report shows the same two values.
C15_RawIsClampedReportedValue ==
    HandedToDelivery =>
        LET c == g_supplied.confidence
        IN  /\ g_decision.confidence = Num(conf_meta.calibrated)
            /\ g_decision.confidence_calibrated = Num(conf_meta.calibrated)
            /\ c.k = "num" /\ InUnit(c.v) => g_decision.confidence_raw = c
            /\ c.k = "num" /\ c.v > Unit
                 => g_decision.confidence_raw = Num(Unit)
            /\ c.k = "num" /\ c.v < 0 => g_decision.confidence_raw = Num(0)
            /\ c.k # "num" => g_decision.confidence_raw = Num(Unit \div 2)
            /\ report # NoDoc =>
                 /\ report.confidence_calibrated = Num(conf_meta.calibrated)
                 /\ report.confidence_raw = g_decision.confidence_raw

\* A Decision was delivered whose stage reported no confidence: it carries
\* the calibrated value and a confidence_raw of 0.5, guardrail off.
C15_Witness ==
    /\ gpc = "done"
    /\ g_supplied.confidence = Absent
    /\ g_decision.confidence_raw = Num(Unit \div 2)
    /\ g_decision.confidence = Num(conf_meta.calibrated)
    /\ conf_meta.calibrated # Unit \div 2
    /\ g_decision.guardrail_mode = "false"
    /\ report.confidence_raw = Num(Unit \div 2)

\* the run has no correlation groups and no enrichments
NoData == gpc # "idle" /\ g_groups = <<>> /\ g_enrichments = <<>>

\* C16: whenever a run has no data, the pipeline does not raise on it and,
\* for every decision-stage output, the Decision it produces has
\* guardrail_mode = true and a missing_data list with the standard items.
C16_NoDataIsGuarded ==
    NoData =>
        /\ ~(gpc = "raised" /\ g_decision = NoDoc)
        /\ g_decision # NoDoc =>
             /\ g_decision.guardrail_mode = "true"
             /\ g_decision.missing_data.k = "list"
             /\ \A i \in 1..Len(needed) :
                    InSeq(needed[i], g_decision.missing_data.items)

\* What does hold without data: the guardrail is engaged unless the decision
\* stage reports a confidence of at least 0.9 together with two or more of
\* evidence, a root cause and the 5W1H block.
NoDataGuardedUnlessConfident ==
    (NoData /\ g_decision # NoDoc) =>
        \/ g_decision.guardrail_mode = "true"
        \/ /\ conf_meta.llm_conf >= 9000
           /\ conf_meta.completeness >= 4000

(***************************************************************************)
(* Knowledge-base matcher (SpecKb)                                         *)
(*                                                                         *)
(* A text is a sequence of characters, None and the empty text the empty   *)
(* sequence.  A character is a one-character string; a character that a    *)
(* string of this language cannot hold is written as the name of its code  *)
(* point ("U+000B").  A score is a float; min_score and the returned score *)
(* are in units of 1/10000.                                                *)
(***************************************************************************)
MaxKb == 2

\* the characters str.split() separates at: those str.isspace() holds for
Whitespace ==
    {" ", "\t", "\n", "\r", "\f", "U+000B",
     "U+001C", "U+001D", "U+001E", "U+001F", "U+0085", "U+00A0", "U+1680",
     "U+2000", "U+2001", "U+2002", "U+2003", "U+2004", "U+2005", "U+2006",
     "U+2007", "U+2008", "U+2009", "U+200A", "U+2028", "U+2029", "U+202F",
     "U+205F", "U+3000"}

\* str.split(sep) for one-character separators: the pieces between the
\* separators, the empty ones included; one empty piece for the empty text
Pieces(cs, seps) ==
    LET P[i \in 0..Len(cs)] ==
            IF i = 0 THEN << <<>> >>
            ELSE IF cs[i] \in seps THEN Append(P[i - 1], <<>>)
            ELSE [P[i - 1] EXCEPT ![Len(P[i - 1])] = Append(@, cs[i])]
    IN  P[Len(cs)]

\* str.split(): the runs of characters that are not whitespace
str_split(cs) == SelectSeq(Pieces(cs, Whitespace), LAMBDA w : w # <<>>)

\* " ".join(words)
Join(words) ==
    LET J[i \in 0..Len(words)] ==
            IF i = 0 THEN <<>>
            ELSE IF i = 1 THEN words[1]
            ELSE J[i - 1] \o <<" ">> \o words[i]
    IN  J[Len(words)]

\* " ".join(str(s or "").lower().split())
_normalize_text(s) == Join(str_split(LowerText(s)))

\* text.replace("\n", " ")
ReplaceNewlines(cs) ==
    [i \in 1..Len(cs) |-> IF cs[i] = "\n" THEN " " ELSE cs[i]]

\* the pieces of three or more characters
LongPieces(ps) == { ps[i] : i \in { j \in 1..Len(ps) : Len(ps[j]) >= 3 } }

\* Mutant: the text is not lower-cased.
_token_set_cased(s) ==
    LongPieces(Pieces(ReplaceNewlines(Join(str_split(s))), {" "}))

\* {t for t in text.replace("\n", " ").split(" ") if len(t) >= 3}, text the
\* normalized s
_token_set(s) ==
    LongPieces(Pieces(ReplaceNewlines(_normalize_text(s)), {" "}))

\* the weighted fields, each weight times ten
fields ==
    << [key |-> "title", w |-> 25], [key |-> "root_cause", w |-> 25],
       [key |-> "solution", w |-> 22], [key |-> "problem", w |-> 18],
       [key |-> "summary", w |-> 14], [key |-> "description", w |-> 10],
       [key |-> "content", w |-> 8] >>

\* score += s * w and max_score += w
Weighted(a, s, w) ==
    [score |-> FAdd(a.score, FMul(s, w)), max_score |-> FAdd(a.max_score, w)]

\* The loop over the fields: score += s * w and max_score += w for every
\* field whose token set is not empty, s = overlap / max(1, union).
Overlap(sol_tokens, kb) ==
    LET A[i \in 0..Len(fields)] ==
            IF i = 0 THEN [score |-> FZero, max_score |-> FZero]
            ELSE LET kb_tokens == _token_set(kb[fields[i].key])
                     overlap == Cardinality(sol_tokens \cap kb_tokens)
                     union == Cardinality(sol_tokens \cup kb_tokens)
                 IN  IF kb_tokens = {} THEN A[i - 1]
                     ELSE Weighted(A[i - 1], FRatio(overlap, Max2(1, union)),
                                   FRatio(fields[i].w, 10))
    IN  A[Len(fields)]

\* (score / max_score) if max_score > 0 else 0.0
ScoreRatio(a) ==
    IF a.max_score # FZero THEN FDiv(a.score, a.max_score) ELSE FZero

_weighted_token_overlap(sol_tokens, kb) == ScoreRatio(Overlap(sol_tokens, kb))

\* None, and a string that is empty or missing
NullId == ""

StrOr(a, b) == IF a # "" THEN a ELSE b

Less(x, y) == FCmp(x, y) = -1

\* Mutant: an equal score replaces the best one.
Better_or_equal(score, best_score) == ~Less(score, best_score)

\* score > best_score
Better(score, best_score) == Less(best_score, score)

\* ---- inputs ----
W_disk == <<"d", "i", "s", "k">>
W_Disk == <<"D", "i", "s", "k">>
W_full == <<"f", "u", "l", "l">>
W_FULL == <<"F", "U", "L", "L">>
W_up == <<"u", "p">>
W_Up == <<"U", "p">>
W_ok == <<"o", "k">>
W_AB == <<"A", "B">>
W_nginx == <<"n", "g", "i", "n", "x">>
W_NGINX == <<"N", "G", "I", "N", "X">>
W_down == <<"d", "o", "w", "n">>
Sp == <<" ">>
Tab == <<"\t">>
Nl == <<"\n">>
Cr == <<"\r">>
Ff == <<"\f">>
Vt == <<"U+000B">>
Nbsp == <<"U+00A0">>

NoFields ==
    [id |-> "", kb_id |-> "", article_id |-> "", knowledge_id |-> "",
     title |-> <<>>, root_cause |-> <<>>, solution |-> <<>>,
     problem |-> <<>>, summary |-> <<>>, description |-> <<>>,
     content |-> <<>>]

\* "Disk FULL" in every field and "full up  DISK" as the solution; a title
\* alone; an id under kb_id; two fields of different weight; an entry
\* without an id; an entry with other words; an entry whose fields hold no
\* word of three characters; an entry whose words are set apart by a
\* carriage return, a vertical tab, a form feed and a no-break space.
EntryKinds ==
    LET t == W_Disk \o Sp \o W_FULL
    IN  { [NoFields EXCEPT !.id = "KB-1", !.title = t, !.root_cause = t,
                           !.solution = W_full \o Sp \o W_up \o Sp \o Sp
                                          \o <<"D", "I", "S", "K">>,
                           !.problem = t, !.summary = t, !.description = t,
                           !.content = Sp \o t \o Nl],
          [NoFields EXCEPT !.id = "KB-2", !.title = W_Disk],
          [NoFields EXCEPT !.kb_id = "KB-3", !.solution = W_FULL],
          [NoFields EXCEPT !.id = "KB-4", !.title = W_disk \o Tab \o W_full,
                           !.content = W_nginx],
          [NoFields EXCEPT !.title = W_disk \o Sp \o W_full],
          [NoFields EXCEPT !.id = "KB-6", !.title = W_up,
                           !.problem = W_down],
          [NoFields EXCEPT !.id = "KB-7", !.title = W_Up \o Sp \o W_ok],
          [NoFields EXCEPT !.id = "KB-R", !.title = W_disk \o Cr \o W_full,
                           !.description = Vt \o W_FULL \o Ff \o W_up
                                             \o Nbsp \o W_Disk] }

\* "disk full", "AB NGINX" and " up ok", which has no word of three
\* characters
SolutionTexts ==
    { W_disk \o Sp \o W_full,
      W_AB \o Sp \o W_NGINX,
      Sp \o W_up \o Sp \o W_ok }

MinScores == {0, 2000, 6000}

\* The scores of the entries for the solution texts, computed once.
Scores ==
    Tabulated([e \in SolutionTexts \X EntryKinds
                 |-> _weighted_token_overlap(_token_set(e[1]), e[2])])

\* score = _weighted_token_overlap(sol_tokens, kb), sol_tokens the token
\* set of the solution text
ScoreOf(sol_text, kb) ==
    Lookup(Scores, <<sol_text, kb>>,
           _weighted_token_overlap(_token_set(sol_text), kb))

\* best, or the entry of id kb_id where it has one and its score is better
BestWith(best, kb_id, score) ==
    IF kb_id # "" /\ Better(score, best.score)
    THEN [id |-> kb_id, score |-> score]
    ELSE best

\* the loop of pick_best_kb_match over the entries, from best onwards
RECURSIVE BestFrom(_, _, _)
BestFrom(sol_text, entries, best) ==
    IF entries = <<>> THEN best
    ELSE LET kb == Head(entries)
             kb_id == StrOr(kb.id, StrOr(kb.kb_id,
                        StrOr(kb.article_id, kb.knowledge_id)))
         IN  BestFrom(sol_text, Tail(entries),
                      BestWith(best, kb_id, ScoreOf(sol_text, kb)))

\* what is returned of the best entry: no id below min_score
Match(best, min_score) ==
    [id |-> IF Less(best.score, FRatio(min_score, Unit)) THEN NullId
            ELSE best.id,
     score |-> round(best.score, 4)]

pick_best_kb_match(solution_text, entries, min_score) ==
    IF _token_set(solution_text) = {} THEN [id |-> NullId, score |-> 0]
    ELSE Match(BestFrom(solution_text, entries,
                        [id |-> NullId, score |-> FZero]),
               min_score)


KbInit ==
    /\ MainIdle
    /\ zbx = <<>>
    /\ upr = <<>>
    /\ now = [sec |-> Sec(NowSec), frac |-> 0]
    /\ groups = <<>>
    /\ groups_std = <<>>
    /\ cpc = "idle"
    /\ cimpl = "idle"
    /\ cache = <<>>
    /\ ctime = 0
    /\ written = <<>>
    /\ got = NoGot
    /\ cdel = <<>>
    /\ cbegun = EmptyBag
    /\ points = <<>>
    /\ summary = NoDoc
    /\ epc = "idle"
    /\ ein = NoDoc
    /\ ehostid = NoDoc
    /\ eclock = NoDoc
    /\ eitems = <<>>
    /\ hist_fetches = 0
    /\ e_fetch = <<>>
    /\ e_sent = <<>>
    /\ eres = NoDoc
    /\ GuardIdle
    /\ TsIdle
    /\ ConcIdle
    /\ kpc = "input"
    /\ kb_solution \in SolutionTexts
    /\ kb_entries \in SeqsUpTo(EntryKinds, MaxKb)
    /\ kb_min_score \in MinScores
    /\ kb_scores = <<>>
    /\ kb_match = NoDoc

\* kb_match = pick_best_kb_match(solution_text, kb_entries, min_score)
PickBest ==
    /\ kpc = "input"
    /\ kb_scores' = [i \in 1..Len(kb_entries) |->
                       ScoreOf(kb_solution, kb_entries[i])]
    /\ kb_match' = pick_best_kb_match(kb_solution, kb_entries, kb_min_score)
    /\ kpc' = "done"
    /\ UNCHANGED <<kb_solution, kb_entries, kb_min_score>>
    /\ UNCHANGED <<corrVars, mainVars, cacheVars, seriesVars, enrichVars,
                   guardVars, tsVars, concVars>>

SpecKb == KbInit /\ [][PickBest]_vars

\* ---- claims on the knowledge-base matcher ----
\* The token set of a text as the spec defines it: the lower-cased words
\* of three or more characters, a word a longest run of characters without
\* whitespace.
TokensOf(text) ==
    LET Gap(i) == i = 0 \/ i = Len(text) + 1 \/ text[i] \in Whitespace
    IN  { LowerText(SubSeq(text, a, b)) :
            <<a, b>> \in { w \in (1..Len(text)) \X (1..Len(text)) :
                             /\ w[1] + 2 <= w[2]
                             /\ Gap(w[1] - 1) /\ Gap(w[2] + 1)
                             /\ \A i \in w[1]..w[2] : ~Gap(i) } }

FieldKeys == { fields[i].key : i \in 1..Len(fields) }

IdOf(kb) ==
    IF kb.id # "" THEN kb.id
    ELSE IF kb.kb_id # "" THEN kb.kb_id
    ELSE IF kb.article_id # "" THEN kb.article_id
    ELSE kb.knowledge_id

SameInEveryField(kb) ==
    \A key \in FieldKeys : TokensOf(kb[key]) = TokensOf(kb_solution)

SharesNoToken(kb) ==
    \A key \in FieldKeys : TokensOf(kb[key]) \cap TokensOf(kb_solution) = {}

Rounded(x) == round(x, 4)

BelowMin(x) == Less(x, FRatio(kb_min_score, Unit))

\* the score of every entry and the returned score are in [0,1], and an
\* entry sharing no token with the solution text scores 0.0 and is not
\* returned as the match unless min_score is 0
ScoresInUnit ==
    /\ \A i \in 1..Len(kb_entries) :
         /\ ~Less(kb_scores[i], FZero)
         /\ ~Less(FOne, kb_scores[i])
         /\ SharesNoToken(kb_entries[i]) =>
              /\ kb_scores[i] = FZero
              /\ (kb_match.id # NullId /\ kb_match.id = IdOf(kb_entries[i]))
                   => kb_min_score = 0
    /\ InUnit(kb_match.score)

\* C17 as stated: an entry whose every weighted field has the same token
\* set as the solution text scores 1.0; an entry sharing no token with the
\* solution text scores 0.0 and is never returned as the match unless
\* min_score is 0; every score is in [0,1].
C17_ScoreEnds ==
    kpc = "done" =>
        /\ ScoresInUnit
        /\ \A i \in 1..Len(kb_entries) :
             SameInEveryField(kb_entries[i]) => kb_scores[i] = FOne

\* C17, amended: when the solution text has a token, an entry whose every
\* weighted field has the same token set as the solution text scores 1.0;
\* when it has none, every entry scores 0.0 and the matcher returns a null
\* id with score 0.0; an entry sharing no token with the solution text
\* scores 0.0 and is never returned as the match unless min_score is 0;
\* every score is in [0,1].
C17_ScoreEndsWithTokens ==
    kpc = "done" =>
        /\ ScoresInUnit
        /\ IF TokensOf(kb_solution) # {}
           THEN \A i \in 1..Len(kb_entries) :
                    SameInEveryField(kb_entries[i]) => kb_scores[i] = FOne
           ELSE /\ \A i \in 1..Len(kb_entries) : kb_scores[i] = FZero
                /\ kb_match = [id |-> NullId, score |-> 0]

\* An entry equal to the solution text in every field (in another letter
\* case and with other whitespace) scored 1.0 and was returned; the entry
\* after it has no token in any field, scored 0.0 and min_score is 0.
C17_Witness ==
    /\ kpc = "done"
    /\ kb_min_score = 0
    /\ Len(kb_entries) = 2
    /\ TokensOf(kb_solution) = {W_disk, W_full}
    /\ SameInEveryField(kb_entries[1])
    /\ kb_entries[1].title = W_Disk \o Sp \o W_FULL
    /\ kb_scores[1] = FOne
    /\ SharesNoToken(kb_entries[2])
    /\ IdOf(kb_entries[2]) = "KB-7"
    /\ kb_scores[2] = FZero
    /\ kb_match = [id |-> "KB-1", score |-> Unit]

\* The solution text " up ok" has no token and the entry has none in any
\* field: the token sets are the same in every field, the entry scores 0.0
\* and the matcher returns a null id with score 0.0.
NoTokenNoScore ==
    /\ kpc = "done"
    /\ TokensOf(kb_solution) = {}
    /\ Len(kb_entries) = 1
    /\ SameInEveryField(kb_entries[1])
    /\ kb_scores[1] = FZero
    /\ kb_match = [id |-> NullId, score |-> 0]

\* "AB NGINX" has the one token "nginx", which the content of an entry
\* holds in lower case: the entry scores 1/3.3 of its two fields' weights
\* times the overlap.
UpperCaseTokenMatched ==
    /\ kpc = "done"
    /\ TokensOf(kb_solution) = {W_nginx}
    /\ Len(kb_entries) = 1
    /\ IdOf(kb_entries[1]) = "KB-4"
    /\ Less(FZero, kb_scores[1])
    /\ kb_match.id = IF BelowMin(kb_scores[1]) THEN NullId ELSE "KB-4"

\* "disk\rfull" is the two tokens of "disk full": the entry scores 1.0
\* and is returned.
CarriageReturnSeparates ==
    /\ kpc = "done"
    /\ kb_solution = W_disk \o Sp \o W_full
    /\ Len(kb_entries) = 2
    /\ IdOf(kb_entries[1]) = "KB-R"
    /\ IdOf(kb_entries[2]) = "KB-2"
    /\ kb_scores = <<FOne, FRatio(1, 2)>>
    /\ kb_match = [id |-> "KB-R", score |-> Unit]

\* the entries that carry an id
WithId == { i \in 1..Len(kb_entries) : IdOf(kb_entries[i]) # "" }

\* the first entry of ids, in input order, no other entry of ids scores
\* higher than
First(ids) ==
    CHOOSE i \in ids :
        /\ \A j \in ids : ~Less(kb_scores[i], kb_scores[j])
        /\ \A j \in ids : j < i => Less(kb_scores[j], kb_scores[i])

\* among all the entries, and among those that carry an id
Highest == First(1..Len(kb_entries))

Winner == First(WithId)

\* C18 as stated: pick_best_kb_match returns the id of the entry with the
\* highest score over all entries in kb_entries, the first such entry in
\* input order when several tie; when that highest score is below min_score
\* it returns a null id together with that score.
C18_HighestScoreWins ==
    (kpc = "done" /\ kb_entries # <<>>) =>
        /\ kb_match.score = Rounded(kb_scores[Highest])
        /\ kb_match.id = IF BelowMin(kb_scores[Highest]) THEN NullId
                         ELSE IdOf(kb_entries[Highest])

\* The statement fails for an entry without an id: it scores highest, 1.0,
\* and the entry after it, which scores 0.5, is returned.
EntryWithoutIdPassedOver ==
    /\ kpc = "done"
    /\ Len(kb_entries) = 2
    /\ IdOf(kb_entries[1]) = ""
    /\ kb_scores[1] = FOne
    /\ kb_scores[2] = FRatio(1, 2)
    /\ kb_match = [id |-> "KB-2", score |-> Unit \div 2]

\* The statement fails where every entry carries an id: the highest score
\* is 0, min_score is 0, and a null id is returned.
ZeroScoreNotReturned ==
    /\ kpc = "done"
    /\ WithId = 1..Len(kb_entries)
    /\ kb_entries # <<>>
    /\ kb_min_score = 0
    /\ kb_scores[Highest] = FZero
    /\ kb_match = [id |-> NullId, score |-> 0]

\* C18, amended: among the entries that carry an id, pick_best_kb_match
\* returns the id of the one with the highest score, the first such entry in
\* input order when several tie; when that highest score is below min_score,
\* or is 0 (no entry shares a token with the solution text), or no entry
\* carries an id, it returns a null id together with that score, which is 0
\* when no entry carries an id; the score is returned at four decimals.
C18_HighestPositiveScoreWins ==
    kpc = "done" =>
        IF WithId = {} THEN kb_match = [id |-> NullId, score |-> 0]
        ELSE /\ kb_match.score = Rounded(kb_scores[Winner])
             /\ kb_match.id = IF BelowMin(kb_scores[Winner])
                                 \/ kb_scores[Winner] = FZero
                              THEN NullId
                              ELSE IdOf(kb_entries[Winner])

\* Two entries tie at 0.5: the first in input order is returned.
C18_Witness ==
    /\ kpc = "done"
    /\ Len(kb_entries) = 2
    /\ IdOf(kb_entries[1]) = "KB-3"
    /\ IdOf(kb_entries[2]) = "KB-2"
    /\ kb_scores[1] = kb_scores[2]
    /\ kb_scores[1] = FRatio(1, 2)
    /\ kb_min_score = 2000
    /\ kb_match = [id |-> "KB-3", score |-> Unit \div 2]

(***************************************************************************)
(* Timestamp normalisation of one incident event and one uptime log        *)
(* (SpecTs)                                                                *)
(***************************************************************************)
\* the integer q*1000 + r, as a number and as a digit-only string

DigitsVal(q, r) == [k |-> "digits", q |-> q, r |-> r]

\* Field values of an event: missing, unparseable text, two parseable
\* values inside the lookback, the number 0, and digit characters that
\* spell no integer.
EventFieldValues ==
    { RawNone, RawStr, RawDigits(NowSec - 100), RawInt(NowSec - 200),
      RawInt(0), RawSupDigit }

LogFieldValues ==
    { RawNone, RawStr, RawInt(NowSec - 150), RawDigits(NowSec - 160),
      RawSupDigit }

\* Integers around the millisecond threshold, as [q, r] = q*1000 + r:
\* 10^10 - 1, 10^10, 10^10 + 1, a millisecond clock, a second clock, 0, -1,
\* -10^10 - 1 and -2*10^11 + 500.
EpochValues ==
    { <<9999999, 999>>, <<10000000, 0>>, <<10000000, 1>>,
      <<1790000000, 123>>, <<1790000, 0>>, <<0, 0>>, <<-1, 999>>,
      <<-10000001, 999>>, <<-200000000, 500>> }

\* An event carrying v as a number in clock and, for v >= 0, its digit-only
\* string in event_time (the string form of a negative number has a sign).
ThresholdEvents ==
    { [clock |-> IntVal(v[1], v[2]),
       event_time |-> IF v[1] >= 0 THEN DigitsVal(v[1], v[2]) ELSE RawStr,
       timestamp |-> RawNone] : v \in EpochValues }

TsInputs ==
    { [zev |-> [clock |-> a, event_time |-> b, timestamp |-> c],
       lg |-> [datetime |-> d, time |-> e, created_at |-> f]] :
        a \in EventFieldValues, b \in EventFieldValues,
        c \in EventFieldValues, d \in LogFieldValues, e \in LogFieldValues,
        f \in LogFieldValues }
    \cup { [zev |-> z, lg |-> OnlyDatetime(RawNone)] : z \in ThresholdEvents }

TsInit ==
    /\ MainIdle
    /\ zbx = <<>>
    /\ upr = <<>>
    /\ now = [sec |-> Sec(NowSec), frac |-> 0]
    /\ groups = <<>>
    /\ groups_std = <<>>
    /\ cpc = "idle"
    /\ cimpl = "idle"
    /\ cache = <<>>
    /\ ctime = 0
    /\ written = <<>>
    /\ got = NoGot
    /\ cdel = <<>>
    /\ cbegun = EmptyBag
    /\ points = <<>>
    /\ summary = NoDoc
    /\ epc = "idle"
    /\ ein = NoDoc
    /\ ehostid = NoDoc
    /\ eclock = NoDoc
    /\ eitems = <<>>
    /\ hist_fetches = 0
    /\ e_fetch = <<>>
    /\ e_sent = <<>>
    /\ eres = NoDoc
    /\ GuardIdle
    /\ KbIdle
    /\ ConcIdle
    /\ tpc = "input"
    /\ ts_in \in TsInputs
    /\ ts_out = NoDoc

\* Each field is parsed, the event and the log are normalised by both
\* implementations, and both correlate them as the only event and log.
Normalize ==
    /\ tpc = "input"
    /\ ts_out' =
         [parsed |-> [clock |-> parse_ts(ts_in.zev.clock),
                      event_time |-> parse_ts(ts_in.zev.event_time),
                      timestamp |-> parse_ts(ts_in.zev.timestamp)],
          zts |-> IncidentTs(ts_in.zev),
          zts_std |-> zabbix_event_ts(ts_in.zev),
          uts |-> UptimeTs(ts_in.lg),
          uts_std |-> uptime_log_ts(ts_in.lg),
          groups |-> correlate(<<ts_in.zev>>, <<[logs |-> <<ts_in.lg>>]>>, now),
          groups_std |-> correlate_stdlib(<<ts_in.zev>>,
                                          <<[logs |-> <<ts_in.lg>>]>>, now)]
    /\ tpc' = "done"
    /\ UNCHANGED ts_in
    /\ UNCHANGED <<corrVars, mainVars, cacheVars, seriesVars, enrichVars,
                   guardVars, kbVars, concVars>>

SpecTs == TsInit /\ [][Normalize]_vars

\* ---- claims on timestamp normalisation ----
\* a raw value the normaliser has a rule for
Parseable(v) == v.k \in {"int", "digits", "iso"}

SomeParseable(rec) == \E key \in DOMAIN rec : Parseable(rec[key])

\* ts is the timestamp of one of the parseable fields of rec
FromParseableField(ts, rec) ==
    /\ ts.ok
    /\ \E key \in DOMAIN rec : Parseable(rec[key]) /\ ts = parse_ts(rec[key])

\* C19: the normalised timestamp of an incident event or uptime log is null,
\* and the event is skipped, only if none of its candidate fields is
\* parseable: with at least one parseable field it gets the timestamp of a
\* parseable field, also when an earlier field is present but unparseable,
\* and the incident event is not skipped; an unparseable value is never
\* taken as zero.
C19_NullOnlyIfNoFieldParseable ==
    tpc = "done" =>
        /\ SomeParseable(ts_in.zev) =>
             /\ FromParseableField(ts_out.zts, ts_in.zev)
             /\ FromParseableField(ts_out.zts_std, ts_in.zev)
             /\ ts_out.groups.exc = "none"
             /\ OlderThanLookback(ts_out.zts, now) \/ ts_out.groups.val # <<>>
        /\ SomeParseable(ts_in.lg) =>
             /\ FromParseableField(ts_out.uts, ts_in.lg)
             /\ FromParseableField(ts_out.uts_std, ts_in.lg)
        /\ ~SomeParseable(ts_in.zev) =>
             /\ ts_out.zts = NoTs
             /\ ts_out.zts_std = NoTs
             /\ ts_out.groups = Ret(<<>>)
        /\ ~SomeParseable(ts_in.lg) => ts_out.uts = NoTs /\ ts_out.uts_std = NoTs

\* What does hold: rca_full_async_stdlib goes on to the next field after an
\* unparseable one, and so does rca_multi_agent after a missing one, as long
\* as no field holds the number 0 or digit characters that int() rejects.
NoZeroField(rec) == \A key \in DOMAIN rec : rec[key] # RawInt(0)

NoTextField(rec) == \A key \in DOMAIN rec : rec[key].k \notin {"str", "supdigit"}

NoRaisingField(rec) == \A key \in DOMAIN rec : rec[key].k # "supdigit"

NullOnlyIfNoFieldParseable_stdlib ==
    tpc = "done" =>
        /\ (SomeParseable(ts_in.zev) /\ NoZeroField(ts_in.zev)
              /\ NoRaisingField(ts_in.zev))
             => FromParseableField(ts_out.zts_std, ts_in.zev)
        /\ (SomeParseable(ts_in.zev) /\ NoZeroField(ts_in.zev)
              /\ NoTextField(ts_in.zev))
             => FromParseableField(ts_out.zts, ts_in.zev)
        /\ (SomeParseable(ts_in.lg) /\ NoRaisingField(ts_in.lg))
             => FromParseableField(ts_out.uts_std, ts_in.lg)
        /\ (~SomeParseable(ts_in.zev) /\ NoRaisingField(ts_in.zev))
             => ts_out.zts = NoTs /\ ts_out.zts_std = NoTs

\* A field of digit characters that int() rejects ends the normalisation
\* with ValueError once it is the field that is parsed; an incident
\* timestamp outside the years 1..9999 ends correlate with ValueError.
NormalisationNeverRaises ==
    tpc = "done" =>
        /\ ~IsRaised(ts_out.zts) /\ ~IsRaised(ts_out.zts_std)
        /\ ~IsRaised(ts_out.uts) /\ ~IsRaised(ts_out.uts_std)
        /\ ts_out.groups.exc = "none" /\ ts_out.groups_std.exc = "none"

\* correlate raises exactly when a timestamp it parses raises or the
\* incident timestamp is outside the range of datetime.
RaisesOnlyOnBadTimestamp ==
    tpc = "done" =>
        (ts_out.groups.exc # "none") <=>
            \/ IsRaised(ts_out.zts) \/ IsRaised(ts_out.uts)
            \/ (~NotTs(ts_out.zts) /\ IsRaised(fromtimestamp(ts_out.zts)))

\* the magnitude of q*1000 + r exceeds 10,000,000,000
MagnitudeOver(q, r) ==
    \/ q > 10000000
    \/ q = 10000000 /\ r > 0
    \/ q < -10000000

\* q*1000 + r exceeds 10,000,000,000
ValueOver(q, r) == q > 10000000 \/ (q = 10000000 /\ r > 0)

\* floor((q*1000 + r) / 1000) as a timestamp
FloorThousandth(q) == [ok |-> TRUE, q |-> q \div 1000, r |-> q % 1000]

\* C20 as stated: for every integer v the normaliser returns floor(v / 1000)
\* when the magnitude of v exceeds 10,000,000,000 and v itself otherwise
\* (exactly 10,000,000,000 is kept as seconds), and the digit-only string
\* form of v normalises to the same result as the number v.
C20_MillisecondsByMagnitude ==
    (tpc = "done" /\ ts_in.zev.clock.k = "int") =>
        LET v == ts_in.zev.clock
            s == ts_in.zev.event_time
        IN  /\ ts_out.parsed.clock =
                 IF MagnitudeOver(v.q, v.r) THEN FloorThousandth(v.q)
                 ELSE [ok |-> TRUE, q |-> v.q, r |-> v.r]
            /\ (s.k = "digits" /\ s.q = v.q /\ s.r = v.r)
                 => ts_out.parsed.event_time = ts_out.parsed.clock

\* C20, amended: for every integer v the normaliser returns floor(v / 1000)
\* when v exceeds 10,000,000,000 and v itself otherwise (exactly
\* 10,000,000,000, and every negative value whatever its magnitude, is kept
\* as it is), and for v >= 0 the digit-only string form of v normalises to
\* the same result as the number v.
C20_MillisecondsByValue ==
    (tpc = "done" /\ ts_in.zev.clock.k = "int") =>
        LET v == ts_in.zev.clock
            s == ts_in.zev.event_time
        IN  /\ ts_out.parsed.clock =
                 IF ValueOver(v.q, v.r) THEN FloorThousandth(v.q)
                 ELSE [ok |-> TRUE, q |-> v.q, r |-> v.r]
            /\ (s.k = "digits" /\ s.q = v.q /\ s.r = v.r)
                 => ts_out.parsed.event_time = ts_out.parsed.clock
            /\ v.q < 0 => s.k # "digits"

\* The number 10,000,000,001 and its digit string both became 10,000,000.
C20_Witness ==
    /\ tpc = "done"
    /\ ts_in.zev.clock = IntVal(10000000, 1)
    /\ ts_in.zev.event_time = DigitsVal(10000000, 1)
    /\ ts_out.parsed.clock = [ok |-> TRUE, q |-> 10000, r |-> 0]
    /\ ts_out.parsed.event_time = [ok |-> TRUE, q |-> 10000, r |-> 0]

\* Exactly 10,000,000,000 was kept as seconds.
C20_WitnessEdge ==
    /\ tpc = "done"
    /\ ts_in.zev.clock = IntVal(10000000, 0)
    /\ ts_out.parsed.clock = [ok |-> TRUE, q |-> 10000000, r |-> 0]

(***************************************************************************)
(* Claims on the anomaly score of summarize_series (SpecSeries)            *)
(***************************************************************************)
\* min(1, p / q) as a fraction (p >= 0, q > 0)
MinOne(p, q) == IF p >= q THEN [num |-> 1, den |-> 1] ELSE [num |-> p, den |-> q]

\* the movement and the volatility of the samples as C21 defines them
ClaimedMovement(xs) ==
    IF xs[1] = 0 THEN [num |-> 0, den |-> 1]
    ELSE MinOne(Abs(xs[Len(xs)] - xs[1]), Abs(xs[1]))

ClaimedVolatility(xs) ==
    IF SumSeq(xs) = 0 THEN MinOne(MaxSeq(xs) - MinSeq(xs), 1)
    ELSE MinOne((MaxSeq(xs) - MinSeq(xs)) * Len(xs), Abs(SumSeq(xs)))

\* C21: for every non-empty series, anomaly_score = 0.6*movement +
\* 0.4*volatility with movement = min(1, |latest - first| / |first|), and 0
\* when first is zero, and volatility = min(1, (max - min) / |avg|), and
\* min(1, max - min) when avg is zero.
C21_ScoreFormula ==
    (summary # NoDoc /\ points # <<>>) =>
        LET m == ClaimedMovement(points)
            v == ClaimedVolatility(points)
        IN  summary.anomaly_score
              = RoundHalfEven(6000 * m.num * v.den + 4000 * v.num * m.den,
                              m.den * v.den)

\* What does hold: the formula as claimed for every series that does not
\* start at zero; one that starts at zero has movement min(1, |latest|).
ScoreFormulaNonZeroFirst ==
    (summary # NoDoc /\ points # <<>>) =>
        LET m == IF points[1] = 0
                 THEN MinOne(Abs(points[Len(points)]), 1)
                 ELSE ClaimedMovement(points)
            v == ClaimedVolatility(points)
        IN  summary.anomaly_score
              = RoundHalfEven(6000 * m.num * v.den + 4000 * v.num * m.den,
                              m.den * v.den)

(***************************************************************************)
(* Claims on the anomalies and the fan-out of one enrichment (SpecEnrich)  *)
(***************************************************************************)
MultiAgentMetrics == HasMetrics /\ eres.impl = "multi_agent"

\* C22: the anomalies list holds exactly the kept top-N metrics whose
\* anomaly_score is strictly above 0.35, in rank order; a metric whose score
\* equals 0.35, or that is outside the top-N, is not listed.
C22_AnomaliesStrictlyAbove ==
    MultiAgentMetrics =>
        eres.anomalies
          = SelectSeq(eres.metrics, LAMBDA m : m.summary.anomaly_score > 3500)

\* What does hold: the list holds the kept metrics that score 0.35 or more.
AnomaliesAtOrAbove ==
    MultiAgentMetrics =>
        /\ eres.anomalies
             = SelectSeq(eres.metrics,
                         LAMBDA m : m.summary.anomaly_score >= 3500)
        /\ Len(eres.metrics) <= ENRICH_TOP_N_ITEMS

(***************************************************************************)
(* SpecFan: the enrichment fan-out.  rca_multi_agent.main runs one         *)
(* enrich_one task per (host, event) target under its semaphore, and each  *)
(* enrichment runs one one_item task per candidate under a semaphore of    *)
(* its own; rca_other.zbx_enrich_items runs one fetch_item_history task    *)
(* per candidate under its own semaphore, every request passing SEM_ZBX.   *)
(* rca_other.collect_zabbix_evidence looks the host up, then runs the      *)
(* enrichment beside its problem.get, event.get and maintenance.get tasks, *)
(* whose requests pass SEM_ZBX too, and awaits the four in that order.     *)
(* The cache is cold: every request is sent.                               *)
(***************************************************************************)
MaxLimit == 2

\* Everything the earlier specifications exercise, at rest.
EarlierIdle ==
    /\ MainIdle
    /\ zbx = <<>>
    /\ upr = <<>>
    /\ now = [sec |-> Sec(NowSec), frac |-> 0]
    /\ groups = <<>>
    /\ groups_std = <<>>
    /\ cpc = "idle"
    /\ cimpl = "idle"
    /\ cache = <<>>
    /\ ctime = 0
    /\ written = <<>>
    /\ got = NoGot
    /\ cdel = <<>>
    /\ cbegun = EmptyBag
    /\ points = <<>>
    /\ summary = NoDoc
    /\ epc = "idle"
    /\ ein = NoDoc
    /\ ehostid = NoDoc
    /\ eclock = NoDoc
    /\ eitems = <<>>
    /\ hist_fetches = 0
    /\ e_fetch = <<>>
    /\ e_sent = <<>>
    /\ eres = NoDoc
    /\ GuardIdle
    /\ KbIdle
    /\ TsIdle

EarlierVars == <<corrVars, mainVars, cacheVars, seriesVars, enrichVars,
                 guardVars, kbVars, tsVars>>

FanRest == <<EarlierVars, raceVars, apprVars>>

\* Candidates: two numeric items with equal scores, a text item, and a
\* numeric item whose history is empty.
TieFirst == [name |-> "B", value_type |-> 0, hist |-> <<1, 3>>]
TieSecond == [name |-> "B2", value_type |-> 3, hist |-> <<1, 3>>]
TextItem == [name |-> "T", value_type |-> 4, hist |-> <<>>]
EmptyItem == [name |-> "Z", value_type |-> 0, hist |-> <<>>]

\* What item.get answers for the targets of a run.
FanInputs ==
    { <<(<<TieFirst, TieSecond>>)>>,
      <<(<<TextItem, EmptyItem, TieSecond>>)>>,
      <<(<<TieFirst, TieSecond>>), (<<TieFirst, TieSecond>>)>>,
      <<(<<TieFirst, TieSecond>>), (<<TextItem, EmptyItem, TieSecond>>)>> }

Targets == 1..Len(f_items)

ItemsOf(t) == 1..Len(f_items[t])

\* The requests of collect_zabbix_evidence outside the enrichment: the
\* lookup of the host ("h"), and the tasks problem.get ("p"), event.get
\* ("e", which is not created without a time window) and maintenance.get
\* ("m").
Evidence == {"h", "p", "e", "m"}

\* rca_multi_agent has none of them.
NoEvidence == [e \in Evidence |-> "absent"]

EvidenceInputs ==
    { [e \in Evidence |-> "queued"],
      [e \in Evidence |-> IF e = "e" THEN "absent" ELSE "queued"] }

\* Without a time window zbx_enrich_items sends no item.get and has no
\* candidates.
NoCandidates == << <<>> >>

\* The tasks of the run take steps: main() is running, or
\* collect_zabbix_evidence has returned after an exception and left its
\* other tasks to the event loop.
TasksLive == f_run = "running" \/ (f_impl = "rca_other" /\ f_run = "returned")

\* async with sem: one permit is taken on entry ...
Acquired(free) == free - 1

\* Mutant: leaving the block gives no permit back.
Released_never(free, n) == free

\* ... and given back on exit, also when the block raises or is cancelled.
Released(free, n) == free + n

\* Mutant: the results are collected in the order the fetches completed.
GatherOrder_arrival(n, arrival) == arrival

\* asyncio.gather returns the results in the order of its arguments.
GatherOrder(n, arrival) == [k \in 1..n |-> k]

\* one_item / fetch_item_history of one candidate: no row or one row.
ItemRows(impl, it) ==
    IF impl = "multi_agent" THEN MetricRows(<<it>>) ELSE OtherRows(<<it>>)

\* [m for m in await asyncio.gather(...) if m is not None]
GatheredRows(results, arrival) ==
    LET order == GatherOrder(Len(results), arrival)
        R[k \in 0..Len(order)] ==
            IF k = 0 THEN <<>>
            ELSE R[k - 1] \o results[order[k]]
    IN  R[Len(order)]

\* The rest of the enrichment after the gather: rank, keep the top, score.
FanResult(impl, rows) ==
    IF impl = "multi_agent"
    THEN LET top_metrics == Take(SortDesc(rows), ENRICH_TOP_N_ITEMS)
         IN  [impl |-> impl,
              metrics |-> top_metrics,
              host_anomaly_score |-> HostScore(top_metrics),
              anomalies |->
                  SelectSeq(top_metrics,
                            LAMBDA m : m.summary.anomaly_score >= 3500)]
    ELSE [impl |-> impl, metrics |-> SortDesc(rows)]

FanInit ==
    /\ EarlierIdle
    /\ RaceIdle
    /\ ApproveIdle
    /\ f_impl \in {"multi_agent", "rca_other"}
    /\ f_limit \in 1..MaxLimit
    /\ f_items \in FanInputs \cup {NoCandidates}
    /\ ev_pc \in EvidenceInputs \cup {NoEvidence}
    /\ f_impl = "multi_agent" => (ev_pc = NoEvidence /\ f_items \in FanInputs)
    /\ f_impl = "rca_other" =>
          /\ ev_pc \in EvidenceInputs
          /\ Len(f_items) = 1
          /\ f_items = NoCandidates <=> ev_pc["e"] = "absent"
    /\ f_run = "running"
    /\ t_pc = [t \in Targets |-> "queued"]
    /\ i_pc = [t \in Targets |-> <<>>]
    /\ f_arrival = [t \in Targets |-> <<>>]
    /\ i_res = [t \in Targets |-> <<>>]
    /\ f_res = [t \in Targets |-> NoDoc]
    /\ outer_free = f_limit
    /\ inner_free = [t \in Targets |-> 0]
    /\ global_free = f_limit

\* The target enters "async with sem" of main() and sends its lookups; in
\* rca_other the item.get request enters "async with SEM_ZBX".
TargetEnter(t) ==
    /\ TasksLive
    /\ t_pc[t] = "queued"
    /\ IF f_impl = "multi_agent"
       THEN /\ outer_free > 0
            /\ outer_free' = Acquired(outer_free)
            /\ UNCHANGED global_free
       ELSE /\ ev_pc["h"] = "done"
            /\ ev_pc["e"] # "absent"
            /\ global_free > 0
            /\ global_free' = Acquired(global_free)
            /\ UNCHANGED outer_free
    /\ t_pc' = [t_pc EXCEPT ![t] = "lookup"]
    /\ UNCHANGED <<f_impl, f_limit, f_items, f_run, i_pc, f_arrival, i_res, f_res,
                   inner_free, ev_pc>>
    /\ UNCHANGED FanRest

\* rca_other.zbx_enrich_items without a time window: it returns at once
\* with no items, and no request is sent.
EnrichSkipped(t) ==
    /\ TasksLive
    /\ f_impl = "rca_other"
    /\ t_pc[t] = "queued"
    /\ ev_pc["h"] = "done"
    /\ ev_pc["e"] = "absent"
    /\ t_pc' = [t_pc EXCEPT ![t] = "done"]
    /\ f_res' = [f_res EXCEPT ![t] = FanResult(f_impl, <<>>)]
    /\ UNCHANGED <<f_impl, f_limit, f_items, f_run, i_pc, f_arrival, i_res,
                   outer_free, inner_free, global_free, ev_pc>>
    /\ UNCHANGED FanRest

\* rca_other.zbx_api of an evidence request: it enters "async with
\* SEM_ZBX" and the request is sent.  The tasks exist once the host is
\* found.
EvidenceEnter(e) ==
    /\ TasksLive
    /\ ev_pc[e] = "queued"
    /\ e # "h" => ev_pc["h"] = "done"
    /\ global_free > 0
    /\ global_free' = Acquired(global_free)
    /\ ev_pc' = [ev_pc EXCEPT ![e] = "fetch"]
    /\ UNCHANGED <<f_impl, f_limit, f_items, f_run, t_pc, i_pc, f_arrival,
                   i_res, f_res, outer_free, inner_free>>
    /\ UNCHANGED FanRest

\* The request of an evidence call is answered ("done"; for the lookup of
\* the host "empty" when no host is found) or raises ("raised"): the call
\* leaves "async with SEM_ZBX".
EvidenceEnd(e, how) ==
    /\ TasksLive
    /\ ev_pc[e] = "fetch"
    /\ how = "empty" => e = "h"
    /\ ev_pc' = [ev_pc EXCEPT ![e] = how]
    /\ global_free' = Released(global_free, 1)
    /\ UNCHANGED <<f_impl, f_limit, f_items, f_run, t_pc, i_pc, f_arrival,
                   i_res, f_res, outer_free, inner_free>>
    /\ UNCHANGED FanRest

\* item.get answered: the enrichment creates its semaphore and one task per
\* candidate.
LookupReturn(t) ==
    /\ TasksLive
    /\ t_pc[t] = "lookup"
    /\ t_pc' = [t_pc EXCEPT ![t] = "gather"]
    /\ i_pc' = [i_pc EXCEPT ![t] = [i \in ItemsOf(t) |-> "wait"]]
    /\ i_res' = [i_res EXCEPT ![t] = [i \in ItemsOf(t) |-> <<>>]]
    /\ inner_free' = [inner_free EXCEPT ![t] = f_limit]
    /\ global_free' = IF f_impl = "rca_other" THEN Released(global_free, 1)
                      ELSE global_free
    /\ UNCHANGED <<f_impl, f_limit, f_items, f_run, f_arrival, f_res,
                   outer_free,
                   ev_pc>>
    /\ UNCHANGED FanRest

\* A lookup request raises: the target ends with the exception.
LookupRaise(t) ==
    /\ TasksLive
    /\ t_pc[t] = "lookup"
    /\ t_pc' = [t_pc EXCEPT ![t] = "failed"]
    /\ outer_free' = IF f_impl = "multi_agent" THEN Released(outer_free, 1)
                     ELSE outer_free
    /\ global_free' = IF f_impl = "rca_other" THEN Released(global_free, 1)
                      ELSE global_free
    /\ UNCHANGED <<f_impl, f_limit, f_items, f_run, i_pc, f_arrival, i_res, f_res,
                   inner_free,
                   ev_pc>>
    /\ UNCHANGED FanRest

\* A per-metric task enters "async with sem" of its enrichment.  A candidate
\* that is not numeric returns None at once; a numeric one sends history.get
\* (rca_multi_agent) or goes on to SEM_ZBX (rca_other).
ItemEnter(t, i) ==
    /\ TasksLive
    /\ i \in DOMAIN i_pc[t]
    /\ i_pc[t][i] = "wait"
    /\ inner_free[t] > 0
    /\ IF ~Numeric(f_items[t][i])
       THEN /\ i_pc' = [i_pc EXCEPT ![t][i] = "done"]
            /\ f_arrival' = [f_arrival EXCEPT ![t] = Append(@, i)]
            /\ inner_free' = [inner_free EXCEPT
                                ![t] = Released(Acquired(@), 1)]
       ELSE /\ i_pc' = [i_pc EXCEPT
                          ![t][i] = IF f_impl = "multi_agent" THEN "fetch"
                                    ELSE "gwait"]
            /\ inner_free' = [inner_free EXCEPT ![t] = Acquired(@)]
            /\ UNCHANGED f_arrival
    /\ UNCHANGED <<f_impl, f_limit, f_items, f_run, t_pc, i_res, f_res,
                   outer_free, global_free,
                   ev_pc>>
    /\ UNCHANGED FanRest

\* rca_other.zbx_api: the history.get request enters "async with SEM_ZBX".
GlobalEnter(t, i) ==
    /\ TasksLive
    /\ i \in DOMAIN i_pc[t]
    /\ i_pc[t][i] = "gwait"
    /\ global_free > 0
    /\ global_free' = Acquired(global_free)
    /\ i_pc' = [i_pc EXCEPT ![t][i] = "fetch"]
    /\ UNCHANGED <<f_impl, f_limit, f_items, f_run, t_pc, f_arrival, i_res, f_res,
                   outer_free, inner_free,
                   ev_pc>>
    /\ UNCHANGED FanRest

\* history.get answered (raised = FALSE) or raised (raised = TRUE): the task
\* leaves every "async with" block it is in.
HistoryEnd(t, i, raised) ==
    /\ TasksLive
    /\ i \in DOMAIN i_pc[t]
    /\ i_pc[t][i] = "fetch"
    /\ i_pc' = [i_pc EXCEPT ![t][i] = IF raised THEN "raised" ELSE "done"]
    /\ f_arrival' = IF raised THEN f_arrival
                    ELSE [f_arrival EXCEPT ![t] = Append(@, i)]
    /\ i_res' = IF raised THEN i_res
                 ELSE [i_res EXCEPT ![t][i] = ItemRows(f_impl, f_items[t][i])]
    /\ inner_free' = [inner_free EXCEPT ![t] = Released(@, 1)]
    /\ global_free' = IF f_impl = "rca_other" THEN Released(global_free, 1)
                      ELSE global_free
    /\ UNCHANGED <<f_impl, f_limit, f_items, f_run, t_pc, f_res, outer_free,
                   ev_pc>>
    /\ UNCHANGED FanRest

\* Every task of the gather returned: the rows are ranked and the
\* enrichment returns, leaving "async with sem" of main().
TargetFinish(t) ==
    /\ TasksLive
    /\ t_pc[t] = "gather"
    /\ \A i \in ItemsOf(t) : i_pc[t][i] = "done"
    /\ f_res' = [f_res EXCEPT
                   ![t] = FanResult(f_impl,
                                    GatheredRows(i_res[t], f_arrival[t]))]
    /\ t_pc' = [t_pc EXCEPT ![t] = "done"]
    /\ outer_free' = IF f_impl = "multi_agent" THEN Released(outer_free, 1)
                     ELSE outer_free
    /\ UNCHANGED <<f_impl, f_limit, f_items, f_run, i_pc, f_arrival, i_res,
                   inner_free, global_free,
                   ev_pc>>
    /\ UNCHANGED FanRest

\* A task of the gather raised: the gather raises in the enrichment, which
\* leaves "async with sem" of main() with the exception.
TargetFail(t) ==
    /\ TasksLive
    /\ t_pc[t] = "gather"
    /\ \E i \in ItemsOf(t) : i_pc[t][i] = "raised"
    /\ t_pc' = [t_pc EXCEPT ![t] = "failed"]
    /\ outer_free' = IF f_impl = "multi_agent" THEN Released(outer_free, 1)
                     ELSE outer_free
    /\ UNCHANGED <<f_impl, f_limit, f_items, f_run, i_pc, f_arrival, i_res, f_res,
                   inner_free, global_free,
                   ev_pc>>
    /\ UNCHANGED FanRest

\* what an evidence task is at when "await" of it returns
Answered(e) == ev_pc[e] \in {"done", "absent"}

\* The gather of main() returned the enrichments of all targets; in
\* rca_other, the awaits of collect_zabbix_evidence returned the results of
\* its three tasks and of the enrichment.
RunDone ==
    /\ f_run = "running"
    /\ \A t \in Targets : t_pc[t] = "done"
    /\ \A e \in Evidence : Answered(e)
    /\ f_run' = "done"
    /\ UNCHANGED <<f_impl, f_limit, f_items, t_pc, i_pc, f_arrival, i_res, f_res,
                   outer_free, inner_free, global_free, ev_pc>>
    /\ UNCHANGED FanRest

\* collect_zabbix_evidence is left with {}: no host was found, or the
\* lookup raised, or the first of "await problems_task", "await
\* events_task", "await maintenance_task" and "await enrichment_task" whose
\* task did not return its result raised.
ReturnsEmpty ==
    \/ ev_pc["h"] \in {"raised", "empty"}
    \/ ev_pc["p"] = "raised"
    \/ Answered("p") /\ ev_pc["e"] = "raised"
    \/ Answered("p") /\ Answered("e") /\ ev_pc["m"] = "raised"
    \/ /\ Answered("p") /\ Answered("e") /\ Answered("m")
       /\ \E t \in Targets : t_pc[t] = "failed"

\* rca_other: "except Exception" of collect_zabbix_evidence returns {}, or
\* it returns {} for want of a host; run_full_rca goes on to the reasoning
\* service, and the tasks that are pending stay with the event loop.
CollectReturnsEmpty ==
    /\ f_impl = "rca_other"
    /\ f_run = "running"
    /\ ReturnsEmpty
    /\ f_run' = "returned"
    /\ UNCHANGED <<f_impl, f_limit, f_items, t_pc, i_pc, f_arrival, i_res, f_res,
                   outer_free, inner_free, global_free, ev_pc>>
    /\ UNCHANGED FanRest

Holding(pcs, states) == Cardinality({ i \in DOMAIN pcs : pcs[i] \in states })

\* The run ends with tasks that did not return: rca_multi_agent.main() with
\* the exception the gather raised, rca_other.run_full_rca some time after
\* collect_zabbix_evidence returned {}.  asyncio.run cancels every task
\* still pending, each leaving the blocks it is in.
RunCrash ==
    /\ IF f_impl = "multi_agent"
       THEN f_run = "running" /\ \E t \in Targets : t_pc[t] = "failed"
       ELSE f_run = "returned"
    /\ f_run' = "crashed"
    /\ t_pc' = [t \in Targets |->
                  IF t_pc[t] \in {"queued", "lookup", "gather"}
                  THEN "cancelled" ELSE t_pc[t]]
    /\ i_pc' = [t \in Targets |->
                  [i \in DOMAIN i_pc[t] |->
                     IF i_pc[t][i] \in {"wait", "gwait", "fetch"}
                     THEN "cancelled" ELSE i_pc[t][i]]]
    /\ ev_pc' = [e \in Evidence |->
                   IF ev_pc[e] \in {"queued", "fetch"}
                   THEN "cancelled" ELSE ev_pc[e]]
    /\ outer_free' = IF f_impl = "multi_agent"
                     THEN Released(outer_free,
                                   Holding(t_pc, {"lookup", "gather"}))
                     ELSE outer_free
    /\ inner_free' = [t \in Targets |->
                        Released(inner_free[t],
                                 Holding(i_pc[t], {"gwait", "fetch"}))]
    /\ global_free' =
         IF f_impl = "rca_other"
         THEN Released(global_free,
                       Holding(t_pc, {"lookup"})
                       + Holding(ev_pc, {"fetch"})
                       + SumSeq([t \in Targets |-> Holding(i_pc[t], {"fetch"})]))
         ELSE global_free
    /\ UNCHANGED <<f_impl, f_limit, f_items, f_arrival, i_res, f_res>>
    /\ UNCHANGED FanRest

FanNext ==
    \/ \E t \in Targets : TargetEnter(t)
    \/ \E t \in Targets : EnrichSkipped(t)
    \/ \E e \in Evidence : EvidenceEnter(e)
    \/ \E e \in Evidence, how \in {"done", "raised", "empty"} :
          EvidenceEnd(e, how)
    \/ \E t \in Targets : LookupReturn(t)
    \/ \E t \in Targets : LookupRaise(t)
    \/ \E t \in Targets : \E i \in ItemsOf(t) : ItemEnter(t, i)
    \/ \E t \in Targets : \E i \in ItemsOf(t) : GlobalEnter(t, i)
    \/ \E t \in Targets : \E i \in ItemsOf(t), raised \in BOOLEAN :
          HistoryEnd(t, i, raised)
    \/ \E t \in Targets : TargetFinish(t)
    \/ \E t \in Targets : TargetFail(t)
    \/ RunDone
    \/ CollectReturnsEmpty
    \/ RunCrash

SpecFan == FanInit /\ [][FanNext]_vars

\* The event loop runs every task that can take a step, and every request
\* that was sent returns or raises.
SpecFanFair == SpecFan /\ WF_fanVars(FanNext)

(***************************************************************************)
(* Claims on the fan-out (SpecFan)                                         *)
(***************************************************************************)
Returned(t) == t_pc[t] = "done"

Names(rows) == { rows[k].name : k \in 1..Len(rows) }

\* The candidates that can have a row: numeric ones with samples.
Eligible(items) ==
    { items[i].name : i \in { j \in 1..Len(items) :
                                Numeric(items[j]) /\ items[j].hist # <<>> } }

\* C23: an enrichment has a result only when every per-metric fetch of it
\* has completed; the result is the one the candidates determine (rows in
\* candidate order, ranked by a stable sort), whatever the order in which
\* the fetches completed; and no candidate that is not numeric or has no
\* samples is in it.
C23_ResultIndependentOfCompletionOrder ==
    \A t \in Targets :
        /\ f_res[t] # NoDoc =>
               \A i \in ItemsOf(t) : i_pc[t][i] = "done"
        /\ Returned(t) =>
               /\ f_res[t]
                    = FanResult(f_impl,
                                IF f_impl = "multi_agent"
                                THEN MetricRows(f_items[t])
                                ELSE OtherRows(f_items[t]))
               /\ Names(f_res[t].metrics) \subseteq Eligible(f_items[t])

\* Two enrichments returned: in one the second of two equal-score candidates
\* completed first and is still ranked second, in the other a text item and
\* an item without samples completed and were left out.
C23_Witness ==
    /\ f_impl = "multi_agent"
    /\ Len(f_items) = 2
    /\ Returned(1)
    /\ Returned(2)
    /\ f_arrival[1] = <<2, 1>>
    /\ Len(f_res[1].metrics) = 2
    /\ f_res[1].metrics[1].name = "B"
    /\ f_res[1].metrics[2].name = "B2"
    /\ f_res[1].metrics[1].summary.anomaly_score
         = f_res[1].metrics[2].summary.anomaly_score
    /\ Len(f_items[2]) = 3
    /\ Len(f_arrival[2]) = 3
    /\ Names(f_res[2].metrics) = {"B2"}

\* The incident-source requests in flight: the lookups of the targets, the
\* history.get requests of their per-metric tasks and, in rca_other, the
\* evidence requests.
InFlightOf(t) == Holding(i_pc[t], {"fetch"})

InFlight ==
    Holding(t_pc, {"lookup"}) + Holding(ev_pc, {"fetch"})
    + SumSeq([t \in Targets |-> InFlightOf(t)])

\* C24: at every moment the incident-source requests in flight, summed over
\* all enrichments of the run, are at most the configured limit.
C24_SharedPoolBound ==
    f_run # "idle" => InFlight <= f_limit

\* What does hold: rca_other keeps the sum within the limit through SEM_ZBX;
\* rca_multi_agent keeps each enrichment within the limit, and the limit
\* bounds the enrichments that run, so the sum can reach limit * limit
\* (and more once an enrichment failed with fetches of it still pending).
PerEnrichmentBound ==
    f_run # "idle" =>
        /\ f_impl = "rca_other" => InFlight <= f_limit
        /\ \A t \in Targets : InFlightOf(t) <= f_limit
        /\ Holding(t_pc, {"lookup", "gather"}) <= f_limit
        /\ (\A t \in Targets : t_pc[t] # "failed") =>
               InFlight <= f_limit * f_limit

\* Every semaphore has given out exactly the permits its holders hold.
PermitsAccounted ==
    f_run # "idle" =>
        /\ f_impl = "multi_agent" =>
               outer_free + Holding(t_pc, {"lookup", "gather"}) = f_limit
        /\ \A t \in Targets :
               i_pc[t] # <<>> =>
                   inner_free[t] + Holding(i_pc[t], {"gwait", "fetch"}) = f_limit
        /\ f_impl = "rca_other" =>
               global_free + InFlight = f_limit

\* main() is over and so is every task of the fan-out.
FanEnded ==
    /\ f_run \in {"done", "crashed"}
    /\ \A e \in Evidence : ev_pc[e] \notin {"queued", "fetch"}
    /\ \A t \in Targets :
           /\ t_pc[t] \in {"done", "failed", "cancelled"}
           /\ \A i \in DOMAIN i_pc[t] :
                  i_pc[t][i] \in {"done", "raised", "cancelled"}

AllPermitsFree ==
    /\ outer_free = f_limit
    /\ global_free = f_limit
    /\ \A t \in Targets : i_pc[t] # <<>> => inner_free[t] = f_limit

\* C29: when every request that was sent returns or raises, the fan-out
\* ends: no semaphore ever has more or fewer permits out than holders, and
\* eventually every target has ended (returned, or ended with the exception
\* of a request that raised) with every permit of the outer, the inner and
\* the module-level semaphore given back.
C29_FanOutTerminates ==
    /\ []PermitsAccounted
    /\ <>[](FanEnded /\ AllPermitsFree)

\* rca_other: problem.get raised, collect_zabbix_evidence returned {}, the
\* maintenance.get and one history.get were answered after that and the
\* run ended while another history.get was pending: every task is over and
\* every permit of the enrichment's semaphore and of SEM_ZBX is back.
C29_Witness ==
    /\ f_impl = "rca_other"
    /\ FanEnded
    /\ AllPermitsFree
    /\ f_run = "crashed"
    /\ ev_pc["h"] = "done"
    /\ ev_pc["p"] = "raised"
    /\ ev_pc["e"] = "cancelled"
    /\ ev_pc["m"] = "done"
    /\ t_pc[1] = "cancelled"
    /\ \E i \in DOMAIN i_pc[1] : i_pc[1][i] = "done"
    /\ \E i \in DOMAIN i_pc[1] : i_pc[1][i] = "cancelled"

\* rca_other: every request was answered and collect_zabbix_evidence
\* returned the evidence with the enrichment.
EvidenceCollected ==
    /\ f_impl = "rca_other"
    /\ f_run = "done"
    /\ FanEnded
    /\ AllPermitsFree
    /\ \A e \in Evidence : ev_pc[e] = "done"
    /\ Len(f_res[1].metrics) > 0

\* rca_multi_agent: a history.get of one target raised while the other
\* target was inside its enrichment: both ended and every permit is back.
BothTargetsEnded ==
    /\ f_impl = "multi_agent"
    /\ f_limit = MaxLimit
    /\ FanEnded
    /\ AllPermitsFree
    /\ Len(f_items) = 2
    /\ t_pc[1] = "failed"
    /\ t_pc[2] = "cancelled"
    /\ \E i \in DOMAIN i_pc[1] : i_pc[1][i] = "raised"
    /\ \E i \in DOMAIN i_pc[2] : i_pc[2][i] = "cancelled"

(***************************************************************************)
(* Claims on missing_data after the guardrail (SpecGuard)                  *)
(***************************************************************************)
Guarded == g_decision # NoDoc /\ g_decision.guardrail_mode = "true"

\* the list the decision stage supplied, empty when it supplied no list
StageMissing ==
    IF g_supplied.missing_data.k = "list"
    THEN g_supplied.missing_data.items ELSE <<>>

NoRepeat(xs) == \A i, j \in 1..Len(xs) : xs[i] = xs[j] => i = j

\* the standard items that are not in xs, in their standard order
StandardAbsentFrom(xs) == SelectSeq(needed, LAMBDA n : ~InSeq(n, xs))

StageThenStandard ==
    /\ g_decision.missing_data.k = "list"
    /\ g_decision.missing_data.items
         = StageMissing \o StandardAbsentFrom(StageMissing)

\* C26: after the guardrail, every string occurs in missing_data at most
\* once, whatever list the decision stage supplied, and the list is the
\* stage-supplied items in their order followed by the standard items that
\* were not already present.
C26_MissingDataDeduplicated ==
    Guarded =>
        /\ StageThenStandard
        /\ NoRepeat(g_decision.missing_data.items)

\* What does hold: the list is the stage-supplied items in their order
\* followed by the standard items that were not already present; no
\* standard item is added twice, and a string occurs more than once exactly
\* when the decision stage supplied it more than once.
StandardItemsAddedOnce ==
    Guarded =>
        /\ StageThenStandard
        /\ NoRepeat(g_decision.missing_data.items) <=> NoRepeat(StageMissing)
        /\ \A k \in 1..Len(needed) :
               InSeq(needed[k], g_decision.missing_data.items)

\* The decision stage listed one standard item twice: the guardrail added the
\* other two and kept both occurrences.
RepeatedStageItemKept ==
    /\ Guarded
    /\ StageMissing = <<needed[1], "need logs", needed[1]>>
    /\ g_decision.missing_data.items
         = <<needed[1], "need logs", needed[1], needed[2], needed[3]>>

(***************************************************************************)
(* SpecRace: cached calls for one key running at the same time.            *)
(* rca_full_async_stdlib.cached_call runs TTLCache.get and TTLCache.set in *)
(* worker threads on one shared connection, so the two statements of get   *)
(* interleave with the statements of other threads; rca_other.call_llm and *)
(* rca_other.zbx_api call cache_get and cache_set between their awaits.    *)
(***************************************************************************)
MaxCallers == 2

MaxClock == 3

Callers == 1..MaxCallers

\* What an external call hands back when it succeeds, by the call that made
\* it, and what the code makes of a call that did not succeed.
OkValue(c) == [kind |-> "ok", by |-> c]

ErrValue(c, ans) == [kind |-> "error", by |-> c, why |-> ans]

\* None: the "result" of the reply is null, or the content of the report
\* reply is null (stdlib) or the text "null" (call_llm).  json.dumps writes
\* it as the row 'null'.
NullValue(c) == [kind |-> "null", by |-> c]

\* A row written before the calls started; stamp is exp (TTLCache) or ts
\* (rca_other).
OldRow(stamp) == [v |-> OkValue(0), stamp |-> stamp]

Failures == {"timeout", "transport", "error_response", "unparseable"}

Answers == Failures \cup {"ok", "null", "malformed"}

\* How the external call of a cached call can end: with a value, with a
\* null value, with a timeout, with a transport error (an HTTP error status
\* included), with a reply that lacks "result" or "choices", with a
\* content that does not parse, and, for a report call, with a reply that
\* has "choices" and no content to take from them (an empty list of
\* choices, a null message; for call_llm also a null content).  The stdlib
\* report call returns the text of the reply without parsing it.
AnswersFor(impl, kind) ==
    {"ok", "null", "timeout", "transport", "error_response"}
    \cup (IF kind = "llm" THEN {"malformed"} ELSE {})
    \cup (IF impl = "rca_other" /\ kind = "llm" THEN {"unparseable"} ELSE {})

\* What the caller gets and whether it goes on to write the cache.
\*   cached_call: async_fn raises on a timeout or a transport error; _run
\*     turns a reply without "result" into [], _run_llm raises on a reply
\*     without "choices".
\*   call_llm: returns the sentinel on any exception of the request, and
\*     goes on to cache_set with the parse-failure sentinel when the content
\*     does not parse; a reply without "choices" has the content "", which
\*     does not parse.  The content is taken outside the try: on a reply
\*     with "choices" and no content to take, the IndexError or
\*     AttributeError leaves call_llm and nothing is written.
\*   zbx_api: the request raises on a timeout or a transport error, a reply
\*     without "result" is cached as {"_error": res}.
\*   All three write a null value to the cache as they write any other.
Outcome(impl, kind, ans, c) ==
    IF ans = "ok"
    THEN [raised |-> FALSE, cached |-> TRUE, val |-> OkValue(c)]
    ELSE IF ans = "null"
    THEN [raised |-> FALSE, cached |-> TRUE, val |-> NullValue(c)]
    ELSE IF ans = "malformed"
    THEN [raised |-> TRUE, cached |-> FALSE, val |-> NoDoc]
    ELSE IF impl = "rca_other" /\ kind = "llm"
    THEN [raised |-> FALSE,
          cached |-> ans \in {"error_response", "unparseable"},
          val |-> ErrValue(c, ans)]
    ELSE IF ans = "error_response" /\ kind = "zbx"
    THEN [raised |-> FALSE, cached |-> TRUE, val |-> ErrValue(c, ans)]
    ELSE [raised |-> TRUE, cached |-> FALSE, val |-> NoDoc]

\* The stamp a write gives its row: exp = now + ttl, or ts = now.
StampOf(impl, t, ttl) == IF impl = "TTLCache" THEN t + ttl ELSE t

RaceInit ==
    /\ EarlierIdle
    /\ FanIdle
    /\ ApproveIdle
    /\ r_impl \in {"TTLCache", "rca_other"}
    /\ r_kind \in {"zbx", "llm"}
    /\ r_ttl \in Ttls
    /\ r_now = 1
    /\ r_rows \in { [K |-> x, O |-> OldRow(0)] :
                      x \in {NoRow, OldRow(0), OldRow(1)} }
    /\ c_pc = [c \in Callers |-> "start"]
    /\ c_ans = [c \in Callers |-> "none"]
    /\ c_val = [c \in Callers |-> NoDoc]
    /\ c_wrote = [c \in Callers |-> FALSE]
    /\ c_now = [c \in Callers |-> 0]
    /\ gc_now = -1
    /\ r_last_set = NoSet
    /\ r_removed = NoSet

RaceRest == <<EarlierVars, fanVars, apprVars>>

\* The time a statement of call c works with: TTLCache reads the clock in
\* its worker thread before the statement, rca_other reads it on the event
\* loop in the step that runs the statement.
TimeOf(c) == IF r_impl = "TTLCache" THEN c_now[c] ELSE r_now

\* The write of call c: one statement (an upsert, or REPLACE INTO).
Written(c, v) ==
    /\ r_rows' = [r_rows EXCEPT
                    !.K = [v |-> v, stamp |-> StampOf(r_impl, TimeOf(c), r_ttl)]]
    /\ r_last_set' = [by |-> c, v |-> v,
                      stamp |-> StampOf(r_impl, TimeOf(c), r_ttl)]
    /\ c_wrote' = [c_wrote EXCEPT ![c] = TRUE]

\* TTLCache.get: now = int(time.time())
GetClock(c) ==
    /\ r_impl = "TTLCache"
    /\ c_pc[c] = "start"
    /\ c_now' = [c_now EXCEPT ![c] = r_now]
    /\ c_pc' = [c_pc EXCEPT ![c] = "select"]
    /\ UNCHANGED <<r_impl, r_kind, r_ttl, r_now, r_rows, c_ans, c_val, c_wrote,
                   gc_now, r_last_set, r_removed>>
    /\ UNCHANGED RaceRest

\* The read of the cache: the SELECT of TTLCache.get, which goes on to its
\* DELETE when the row it saw is past its expiry; the whole of
\* rca_other.cache_get, which deletes nothing.  A row in time whose value
\* is null is returned as None, which the caller takes for a miss ("if hit
\* is not None", "if cached is not None"): the row stays and the external
\* call is made.
GetSelect(c) ==
    /\ c_pc[c] = IF r_impl = "TTLCache" THEN "select" ELSE "start"
    /\ LET row == r_rows.K
           stale == IF row = NoRow THEN FALSE
                    ELSE IF r_impl = "TTLCache"
                    THEN Expired(row.stamp, TimeOf(c))
                    ELSE TooOld(row.stamp, r_ttl, TimeOf(c))
           miss == row = NoRow \/ stale \/ row.v.kind = "null"
       IN  /\ c_pc' = [c_pc EXCEPT
                         ![c] = IF ~miss THEN "done"
                                ELSE IF r_impl = "TTLCache" /\ stale
                                THEN "delete"
                                ELSE "call"]
           /\ c_val' = [c_val EXCEPT ![c] = IF miss THEN NoDoc ELSE row.v]
    /\ UNCHANGED <<r_impl, r_kind, r_ttl, r_now, r_rows, c_ans, c_wrote,
                   c_now, gc_now, r_last_set, r_removed>>
    /\ UNCHANGED RaceRest

\* TTLCache.get: DELETE FROM cache WHERE k = ?, commit, return None
GetDelete(c) ==
    /\ c_pc[c] = "delete"
    /\ r_rows' = [r_rows EXCEPT !.K = NoRow]
    /\ r_removed' = IF r_rows.K = NoRow THEN r_removed
                    ELSE [row |-> r_rows.K, at |-> r_now, by |-> "get"]
    /\ c_pc' = [c_pc EXCEPT ![c] = "call"]
    /\ UNCHANGED <<r_impl, r_kind, r_ttl, r_now, c_ans, c_val, c_wrote,
                   c_now, gc_now, r_last_set>>
    /\ UNCHANGED RaceRest

\* The external call ends.  rca_other writes the cache before its next await;
\* cached_call hands the write to a worker thread.
CallEnd(c, ans) ==
    /\ c_pc[c] = "call"
    /\ ans \in AnswersFor(r_impl, r_kind)
    /\ LET o == Outcome(r_impl, r_kind, ans, c)
       IN  /\ c_ans' = [c_ans EXCEPT ![c] = ans]
           /\ c_val' = [c_val EXCEPT ![c] = o.val]
           /\ c_pc' = [c_pc EXCEPT
                         ![c] = IF o.raised THEN "failed"
                                ELSE IF o.cached /\ r_impl = "TTLCache"
                                THEN "set"
                                ELSE "done"]
           /\ IF o.cached /\ r_impl = "rca_other"
              THEN Written(c, o.val)
              ELSE UNCHANGED <<r_rows, r_last_set, c_wrote>>
    /\ UNCHANGED <<r_impl, r_kind, r_ttl, r_now, c_now, gc_now, r_removed>>
    /\ UNCHANGED RaceRest

\* await asyncio.to_thread(CACHE.set, key, val, ttl_sec), up to
\* exp = int(time.time()) + ttl_sec
SetClock(c) ==
    /\ c_pc[c] = "set"
    /\ c_now' = [c_now EXCEPT ![c] = r_now]
    /\ c_pc' = [c_pc EXCEPT ![c] = "insert"]
    /\ UNCHANGED <<r_impl, r_kind, r_ttl, r_now, r_rows, c_ans, c_val, c_wrote,
                   gc_now, r_last_set, r_removed>>
    /\ UNCHANGED RaceRest

\* TTLCache.set: INSERT ... ON CONFLICT(k) DO UPDATE, commit
SetStep(c) ==
    /\ c_pc[c] = "insert"
    /\ Written(c, c_val[c])
    /\ c_pc' = [c_pc EXCEPT ![c] = "done"]
    /\ UNCHANGED <<r_impl, r_kind, r_ttl, r_now, c_ans, c_val, c_now, gc_now,
                   r_removed>>
    /\ UNCHANGED RaceRest

\* TTLCache.cleanup: the argument int(time.time()) of its statement
CleanupClock ==
    /\ r_impl = "TTLCache"
    /\ gc_now = -1
    /\ gc_now' = r_now
    /\ UNCHANGED <<r_impl, r_kind, r_ttl, r_now, r_rows, c_pc, c_ans, c_val,
                   c_wrote, c_now, r_last_set, r_removed>>
    /\ UNCHANGED RaceRest

\* TTLCache.cleanup: DELETE FROM cache WHERE exp < ?, commit
CleanupStep ==
    /\ gc_now # -1
    /\ r_rows' = [k \in DOMAIN r_rows |->
                    IF r_rows[k] # NoRow /\ Expired(r_rows[k].stamp, gc_now)
                    THEN NoRow ELSE r_rows[k]]
    /\ r_removed' = IF r_rows'.K = r_rows.K THEN r_removed
                    ELSE [row |-> r_rows.K, at |-> r_now, by |-> "cleanup"]
    /\ gc_now' = -1
    /\ UNCHANGED <<r_impl, r_kind, r_ttl, r_now, c_pc, c_ans, c_val, c_wrote,
                   c_now, r_last_set>>
    /\ UNCHANGED RaceRest

RaceTick ==
    /\ r_impl # "idle"
    /\ r_now < MaxClock
    /\ r_now' = r_now + 1
    /\ UNCHANGED <<r_impl, r_kind, r_ttl, r_rows, c_pc, c_ans, c_val,
                   c_wrote, c_now, gc_now, r_last_set, r_removed>>
    /\ UNCHANGED RaceRest

RaceNext ==
    \/ \E c \in Callers : GetClock(c)
    \/ \E c \in Callers : GetSelect(c)
    \/ \E c \in Callers : GetDelete(c)
    \/ \E c \in Callers, ans \in Answers : CallEnd(c, ans)
    \/ \E c \in Callers : SetClock(c)
    \/ \E c \in Callers : SetStep(c)
    \/ RaceTick

SpecRace == RaceInit /\ [][RaceNext]_vars

\* The cached calls with TTLCache.cleanup running beside them.
RaceGcNext == RaceNext \/ CleanupClock \/ CleanupStep

SpecRaceGc == RaceInit /\ [][RaceGcNext]_vars

(***************************************************************************)
(* Claims on the concurrent cached calls (SpecRace, SpecRaceGc)            *)
(***************************************************************************)
AllCallsOver == c_pc # <<>> /\ \A c \in Callers : c_pc[c] \in {"done", "failed"}

\* The most recent write has not reached its expiry.
LastSetLive ==
    /\ r_last_set # NoSet
    /\ r_impl = "TTLCache" => ~Expired(r_last_set.stamp, r_now)

RowOfLastSet == [v |-> r_last_set.v, stamp |-> r_last_set.stamp]

\* C25: once concurrent cached calls that missed on one key are over, the
\* cache holds one entry for the key, with the value and the expiry of the
\* write that ran last, and the entry of the other key is as it was.
C25_LastWriterWins ==
    (AllCallsOver /\ LastSetLive) =>
        /\ r_rows.K = RowOfLastSet
        /\ r_rows.O = OldRow(0)

\* What does hold: a row of the key is never a mixture (it is the row from
\* before the calls or the row of the most recent write), the other key is
\* untouched, and in rca_other the most recent write stays.
RowsNeverMixed ==
    r_impl # "idle" =>
        /\ r_rows.O = OldRow(0)
        /\ r_rows.K # NoRow =>
               \/ r_rows.K.v = OkValue(0) /\ r_last_set = NoSet
               \/ r_last_set # NoSet /\ r_rows.K = RowOfLastSet
        /\ (r_impl = "rca_other" /\ r_last_set # NoSet) =>
               r_rows.K = RowOfLastSet

\* C27: whatever get, set and cleanup do side by side on one key, a row
\* that is removed is past its expiry at the moment it is removed.
C27_OnlyExpiredRemoved ==
    r_removed # NoSet => Expired(r_removed.row.stamp, r_removed.at)

\* What does hold: cleanup removes only rows past their expiry; a row that
\* is removed before its expiry is removed by the DELETE of a get, and is a
\* row a cached call has written after the SELECT of that get.
CleanupRemovesOnlyExpired ==
    r_removed # NoSet =>
        \/ Expired(r_removed.row.stamp, r_removed.at)
        \/ r_removed.by = "get" /\ r_removed.row.v.by \in Callers

\* C28: a cached call whose external call ended in a timeout, a transport
\* error, an upstream error response or unparseable output wrote nothing
\* to the cache, and no row holds what the code made of such an ending.
C28_FailuresNotCached ==
    r_impl # "idle" =>
        /\ \A c \in Callers : c_ans[c] \in Failures => ~c_wrote[c]
        /\ r_rows.K # NoRow => r_rows.K.v.kind # "error"

\* The report call of rca_other got a reply without "choices" and the
\* parse-failure sentinel is in the cache.
MissingChoicesCached ==
    /\ r_impl = "rca_other"
    /\ r_kind = "llm"
    /\ \E c \in Callers : c_ans[c] = "error_response" /\ c_wrote[c]
    /\ r_rows.K # NoRow
    /\ r_rows.K.v.kind = "error"
    /\ r_rows.K.v.why = "error_response"

\* The report call of rca_other got a reply with an empty list of choices:
\* the call failed and wrote nothing.
MalformedReplyRaised ==
    /\ r_impl = "rca_other"
    /\ r_kind = "llm"
    /\ \E c \in Callers :
           c_ans[c] = "malformed" /\ c_pc[c] = "failed" /\ ~c_wrote[c]

\* A call wrote a null value, and the call after it found the row in time,
\* took it for a miss and made its external call.
NullRowReadAsMiss ==
    \E c, d \in Callers :
        /\ c_ans[c] = "null" /\ c_wrote[c]
        /\ c_pc[d] = "call"
        /\ r_rows.K # NoRow
        /\ r_rows.K.v = NullValue(c)

\* What does hold: a timeout and a transport error are never cached.
TimeoutsNotCached ==
    r_impl # "idle" =>
        /\ \A c \in Callers :
               c_ans[c] \in {"timeout", "transport", "malformed"}
                   => ~c_wrote[c]
        /\ r_rows.K # NoRow =>
               (r_rows.K.v.kind = "error" =>
                    r_rows.K.v.why \in {"error_response", "unparseable"})

(***************************************************************************)
(* SpecApprove: company-devsecops-bot-mvp, handle_approve calls for one    *)
(* request_id.  A call runs without suspension up to "await                *)
(* deploy_service(...)" and is resumed when the deploy returns or raises.  *)
(***************************************************************************)
MaxApprovals == 2

Approvals == 1..MaxApprovals

\* The row create_approval inserted: not approved, not executed.
PendingRows ==
    { [action_type |-> a, env |-> e, approved |-> 0, executed |-> 0] :
        a \in {"deploy", "other"}, e \in {"prod", "dev"} }

\* can_approve(approver) and can_approve_prod(approver) of each caller
Permissions == [approve : BOOLEAN, prod : BOOLEAN]

ApproveInit ==
    /\ EarlierIdle
    /\ FanIdle
    /\ RaceIdle
    /\ a_row \in PendingRows \cup {NoRow}
    /\ a_perm \in [Approvals -> Permissions]
    /\ a_pc = [c \in Approvals |-> "start"]
    /\ a_resp = [c \in Approvals |-> "none"]
    /\ a_deploys = <<>>
    /\ a_audit = <<>>

ApproveRest == <<EarlierVars, fanVars, raceVars>>

\* if int(row["executed"]) == 1
AlreadyExecuted(row) == row.executed = 1

\* approve_request: UPDATE approvals SET approved = 1 WHERE request_id = ?
approve_request(row) == [row EXCEPT !.approved = 1]

\* mark_executed: UPDATE ... SET executed = 1 WHERE request_id = ? AND
\* executed = 0
mark_executed(row) == [row EXCEPT !.executed = 1]

\* handle_approve from its first line to its first await, or to its return.
ApproveCall(c) ==
    /\ a_pc[c] = "start"
    /\ LET row == a_row
           refused ==
               IF ~a_perm[c].approve THEN "Not authorized to approve"
               ELSE IF row = NoRow THEN "Request not found"
               ELSE IF row.env = "prod" /\ ~a_perm[c].prod
               THEN "Only prod approvers can approve production deploy"
               ELSE "no"
       IN  IF refused # "no"
           THEN /\ a_resp' = [a_resp EXCEPT ![c] = refused]
                /\ a_pc' = [a_pc EXCEPT ![c] = "done"]
                /\ UNCHANGED <<a_row, a_deploys, a_audit>>
           ELSE /\ a_row' = IF row.approved = 0 THEN approve_request(row)
                            ELSE row
                /\ IF AlreadyExecuted(row)
                   THEN /\ a_resp' = [a_resp EXCEPT
                                        ![c] = "Already approved and executed"]
                        /\ a_pc' = [a_pc EXCEPT ![c] = "done"]
                        /\ UNCHANGED <<a_deploys, a_audit>>
                   ELSE IF row.action_type = "deploy"
                   THEN /\ a_deploys' = Append(a_deploys,
                                               [by |-> c,
                                                approved |-> a_row'.approved])
                        /\ a_pc' = [a_pc EXCEPT ![c] = "deploying"]
                        /\ UNCHANGED <<a_resp, a_audit>>
                   ELSE /\ a_audit' = Append(a_audit, "approved")
                        /\ a_resp' = [a_resp EXCEPT ![c] = "Approved"]
                        /\ a_pc' = [a_pc EXCEPT ![c] = "done"]
                        /\ UNCHANGED a_deploys
    /\ UNCHANGED a_perm
    /\ UNCHANGED ApproveRest

\* deploy_service returned a value that is not an object (None, a text):
\* mark_executed and write_audit store it, res.get raises and
\* handle_approve ends with the exception.
DeployReturnNotObject(c) ==
    /\ a_pc[c] = "deploying"
    /\ a_row' = IF a_row.executed = 0 THEN mark_executed(a_row) ELSE a_row
    /\ a_audit' = Append(a_audit, "approved_and_executed")
    /\ a_pc' = [a_pc EXCEPT ![c] = "raised"]
    /\ UNCHANGED <<a_perm, a_resp, a_deploys>>
    /\ UNCHANGED ApproveRest

\* deploy_service returned an object: mark_executed, write_audit, answer.
DeployReturn(c) ==
    /\ a_pc[c] = "deploying"
    /\ a_row' = IF a_row.executed = 0 THEN mark_executed(a_row) ELSE a_row
    /\ a_audit' = Append(a_audit, "approved_and_executed")
    /\ a_resp' = [a_resp EXCEPT ![c] = "Approved + executed"]
    /\ a_pc' = [a_pc EXCEPT ![c] = "done"]
    /\ UNCHANGED <<a_perm, a_deploys>>
    /\ UNCHANGED ApproveRest

\* deploy_service raised: handle_approve ends with the exception.
DeployRaise(c) ==
    /\ a_pc[c] = "deploying"
    /\ a_pc' = [a_pc EXCEPT ![c] = "raised"]
    /\ UNCHANGED <<a_row, a_perm, a_resp, a_deploys, a_audit>>
    /\ UNCHANGED ApproveRest

ApproveNext ==
    \/ \E c \in Approvals : ApproveCall(c)
    \/ \E c \in Approvals : DeployReturn(c)
    \/ \E c \in Approvals : DeployReturnNotObject(c)
    \/ \E c \in Approvals : DeployRaise(c)

SpecApprove == ApproveInit /\ [][ApproveNext]_vars

(***************************************************************************)
(* Claims on the approvals (SpecApprove)                                   *)
(***************************************************************************)
\* C30: whatever the sequence or the overlap of handle_approve calls for a
\* request, deploy_service is invoked at most once for it, and only with
\* the request marked approved.
C30_DeployAtMostOnce ==
    /\ Len(a_deploys) <= 1
    /\ \A k \in 1..Len(a_deploys) : a_deploys[k].approved = 1

\* What does hold: every invocation finds the request marked approved, a
\* call that reads the row as executed invokes nothing, and at most one
\* invocation is followed by the executed mark.
DeployOnlyWhenApproved ==
    /\ \A k \in 1..Len(a_deploys) : a_deploys[k].approved = 1
    /\ (a_row # NoSet /\ a_row # NoRow /\ a_row.executed = 1) =>
           /\ a_row.approved = 1
           /\ Len(a_deploys) >= 1
    /\ Len(a_deploys) <= MaxApprovals

====
